---- MODULE Spec2Model ----
(***************************************************************************)
(* A model of the Google Sheets MCP server: the GoogleSheetsService class  *)
(* (extractSheetIdFromUrl, getSpreadsheetSummary, getSheetData,            *)
(* extractCellData, detectCellType) and the two tool handlers of the       *)
(* server with their lazy initialisation.                                  *)
(*                                                                         *)
(* JavaScript strings that the code inspects character by character (URLs, *)
(* cell values, formatted values) are sequences of one-character strings.  *)
(* Error messages, which the code only passes around, are TLA+ strings.    *)
(***************************************************************************)
EXTENDS Integers, Sequences, FiniteSets, TLC

VARIABLES
    url,            \* argument of extractSheetIdFromUrl: [kind, s]
    urlMeta,        \* how the argument was built: [shape, id]
    urlResult,      \* outcome of extractSheetIdFromUrl, or NotRun
    cell,           \* argument of detectCellType: [value, formattedValue, hyperlink]
    cellType,       \* outcome of detectCellType, or NotRun
    sheet,          \* argument of extractCellData: [title, rowCount, columnCount, grid]
    extracted,      \* outcome of extractCellData, or NotRun
    sheetsService,  \* the module-level handle: 0 (null) or an index into instances
    instances,      \* the GoogleSheetsService objects constructed so far: [auth]
    credentialsVar, \* process.env.GOOGLE_CREDENTIALS_JSON_FILE
    calls,          \* the tool invocations: one record per invocation
    privateKey,     \* credentials.private_key: a sequence of characters
    formattedPrivateKey, \* outcome of the replace on privateKey, or NotRun
    legacyCells,    \* outcome of the address-keyed extractCellData, or NotRun
    env,            \* process.env as the Logger reads it: [LOG_LEVEL, DEBUG]
    logger,         \* the Logger object: [logLevel, debugMode]
    called,         \* the Logger methods called so far: [method, message]
    stderr,         \* the lines written to standard error: [prefix, message]
    stdout          \* the lines written to standard output

urlVars == <<url, urlMeta, urlResult>>

typeVars == <<cell, cellType>>

cellVars == <<sheet, extracted>>

serverVars == <<sheetsService, instances, credentialsVar, calls>>

keyVars == <<privateKey, formattedPrivateKey>>

legacyVars == <<legacyCells>>

logVars == <<env, logger, called, stderr, stdout>>

\* the variables of the specifications of single utilities
restVars == <<keyVars, legacyVars, logVars>>

vars == <<url, urlMeta, urlResult, cell, cellType, sheet, extracted,
          sheetsService, instances, credentialsVar, calls,
          privateKey, formattedPrivateKey, legacyCells,
          env, logger, called, stderr, stdout>>

(***************************************************************************)
(* Bounds of the model.                                                    *)
(***************************************************************************)
MaxIdLen == 2

MaxRows == 2

MaxCols == 2

MaxFilled == 2

MaxCalls == 2

MaxKeyLen == 4

(***************************************************************************)
(* Characters.                                                             *)
(***************************************************************************)
Digits == {"0", "1", "2", "3", "4", "5", "6", "7", "8", "9"}

LowerLetters ==
    {"a", "b", "c", "d", "e", "f", "g", "h", "i", "j", "k", "l", "m",
     "n", "o", "p", "q", "r", "s", "t", "u", "v", "w", "x", "y", "z"}

UpperLetters ==
    {"A", "B", "C", "D", "E", "F", "G", "H", "I", "J", "K", "L", "M",
     "N", "O", "P", "Q", "R", "S", "T", "U", "V", "W", "X", "Y", "Z"}

\* the character class [a-zA-Z0-9-_] of the three patterns
IdChars == LowerLetters \cup UpperLetters \cup Digits \cup {"-", "_"}

(***************************************************************************)
(* Outcomes of a call: a returned value or a thrown Error with a message.  *)
(***************************************************************************)
NotRun == [done |-> FALSE, threw |-> FALSE, value |-> <<>>, message |-> ""]

Returned(v) == [done |-> TRUE, threw |-> FALSE, value |-> v, message |-> ""]

Threw(m) == [done |-> TRUE, threw |-> TRUE, value |-> <<>>, message |-> m]

(***************************************************************************)
(* Error messages of the service.                                          *)
(***************************************************************************)
MsgCouldNotExtract ==
    "Could not extract sheet ID from URL. Please provide a valid Google Sheets URL."

MsgInvalidUrl ==
    "Invalid Google Sheets URL format. Please provide a valid Google Sheets URL."

MsgTypeError == "TypeError: url.match is not a function"

(***************************************************************************)
(* extractSheetIdFromUrl.                                                  *)
(***************************************************************************)
\* the literal prefixes of the three regular expressions, in array order
patterns ==
    << <<"/", "s", "p", "r", "e", "a", "d", "s", "h", "e", "e", "t", "s", "/", "d", "/">>,
       <<"/", "d", "/">>,
       <<"i", "d", "=">> >>

\* String.prototype.match with a non-global regex  literal([class]+) :
\* the leftmost index at which the literal is followed by one class
\* character at least; 0 when there is none.
RECURSIVE RegexSearch(_, _, _)
RegexSearch(s, literal, i) ==
    IF i + Len(literal) > Len(s) THEN 0
    ELSE IF /\ SubSeq(s, i, i + Len(literal) - 1) = literal
            /\ s[i + Len(literal)] \in IdChars
         THEN i
         ELSE RegexSearch(s, literal, i + 1)

\* a capture that stops after one character
LazyEnd(s, j) == j

\* the + quantifier is greedy: the last index of the run of class
\* characters that starts at j
RECURSIVE GreedyEnd(_, _)
GreedyEnd(s, j) ==
    IF j < Len(s) /\ s[j + 1] \in IdChars THEN GreedyEnd(s, j + 1) ELSE j


\* match[1] of url.match(pattern), <<>> when match is null
MatchGroup(s, literal) ==
    LET i == RegexSearch(s, literal, 1)
    IN  IF i = 0 THEN <<>>
        ELSE SubSeq(s, i + Len(literal), GreedyEnd(s, i + Len(literal)))

\* the patterns tried from the last to the first
RECURSIVE TryPatternsReversed(_, _)
TryPatternsReversed(s, k) ==
    IF k > Len(patterns) THEN <<>>
    ELSE LET g == MatchGroup(s, patterns[Len(patterns) + 1 - k])
         IN  IF g # <<>> THEN g ELSE TryPatternsReversed(s, k + 1)

\* for (const pattern of patterns) { ... if (match && match[1]) return match[1] }
RECURSIVE TryPatterns(_, _)
TryPatterns(s, k) ==
    IF k > Len(patterns) THEN <<>>
    ELSE LET g == MatchGroup(s, patterns[k])
         IN  IF g # <<>> THEN g ELSE TryPatterns(s, k + 1)

\* the body of the try block: url.match throws a TypeError on a value
\* that is no string; the no-match Error is thrown inside the try block
ExtractTryBlock(u) ==
    IF u.kind # "string" THEN Threw(MsgTypeError)
    ELSE LET g == TryPatterns(u.s, 1)
         IN  IF g # <<>> THEN Returned(g) ELSE Threw(MsgCouldNotExtract)

\* the catch block replaces whatever the try block threw
extractSheetIdFromUrl(u) ==
    LET r == ExtractTryBlock(u)
    IN  IF r.threw THEN Threw(MsgInvalidUrl) ELSE r

(***************************************************************************)
(* Arguments of extractSheetIdFromUrl.                                     *)
(***************************************************************************)
Str(s) == [kind |-> "string", s |-> s]

NotAString == [kind |-> "undefined", s |-> <<>>]

HttpsDocs ==
    <<"h", "t", "t", "p", "s", ":", "/", "/", "d", "o", "c", "s", ".",
      "g", "o", "o", "g", "l", "e", ".", "c", "o", "m">>

HttpsDrive ==
    <<"h", "t", "t", "p", "s", ":", "/", "/", "d", "r", "i", "v", "e", ".",
      "g", "o", "o", "g", "l", "e", ".", "c", "o", "m">>

\* what precedes the pattern literal in a URL of each shape
BasesOf(shape) ==
    CASE shape = 1 -> {HttpsDocs}
      [] shape = 2 -> {HttpsDocs, HttpsDrive \o <<"/", "f", "i", "l", "e">>}
      [] shape = 3 -> {HttpsDrive \o <<"/", "o", "p", "e", "n", "?">>,
                       HttpsDrive \o <<"/", "u", "c", "?", "e", "x", "p", "o", "r", "t",
                                       "=", "v", "i", "e", "w", "&">>}

\* what follows the identifier: nothing, or text led by a delimiter
Tails ==
    { <<>>,
      <<"/", "e", "d", "i", "t">>,
      <<"/", "e", "d", "i", "t", "#", "g", "i", "d", "=", "0">>,
      <<"?", "u", "s", "p", "=", "s", "h", "a", "r", "i", "n", "g">>,
      <<"&", "g", "i", "d", "=", "0">> }

IdAlphabet == {"a", "Z", "1", "-", "_"}

RECURSIVE SeqsUpTo(_, _)
SeqsUpTo(S, n) ==
    IF n = 0 THEN {<<>>}
    ELSE LET shorter == SeqsUpTo(S, n - 1)
         IN  shorter \cup {Append(q, c) : q \in shorter, c \in S}

Identifiers == SeqsUpTo(IdAlphabet, MaxIdLen) \ {<<>>}

ShapedUrls ==
    UNION { { [url |-> Str(base \o patterns[shape] \o id \o tail),
               meta |-> [shape |-> shape, id |-> id]]
              : base \in BasesOf(shape), id \in Identifiers, tail \in Tails }
            : shape \in 1..3 }

NoMeta == [shape |-> 0, id |-> <<>>]

UnshapedUrls ==
    { [url |-> Str(<<"n", "o", "t", " ", "a", " ", "u", "r", "l">>), meta |-> NoMeta],
      [url |-> Str(<<>>), meta |-> NoMeta],
      [url |-> Str(HttpsDocs \o patterns[1]), meta |-> NoMeta],
      [url |-> Str(HttpsDocs \o patterns[1] \o <<"/", "e", "d", "i", "t">>), meta |-> NoMeta],
      [url |-> NotAString, meta |-> NoMeta] }

\* one segment of each shape, each with an identifier of its own
SegmentId(shape) ==
    CASE shape = 1 -> <<"Z", "1">>
      [] shape = 2 -> <<"a", "_">>
      [] shape = 3 -> <<"-", "1">>

Segment(shape, id) ==
    IF shape = 3 THEN <<"?">> \o patterns[3] \o id ELSE patterns[shape] \o id

\* the sequences of two or three segments of different shapes, in every
\* order, and of two segments of the same shape
SegmentOrders ==
    { o \in [1..2 -> 1..3] \cup [1..3 -> 1..3] :
         \A i, j \in DOMAIN o : i # j => o[i] # o[j] }

RECURSIVE Segments(_, _)
Segments(o, i) ==
    IF i > Len(o) THEN <<>>
    ELSE Segment(o[i], SegmentId(o[i])) \o Segments(o, i + 1)

OtherId == <<"Z", "Z">>

SeveralSegmentUrls ==
    { [url |-> Str(HttpsDocs \o Segments(o, 1)), meta |-> NoMeta] : o \in SegmentOrders }
    \cup { [url |-> Str(HttpsDocs \o Segment(shape, SegmentId(shape))
                              \o Segment(shape, OtherId)),
             meta |-> NoMeta] : shape \in 1..3 }

UrlInputs == ShapedUrls \cup UnshapedUrls \cup SeveralSegmentUrls

(***************************************************************************)
(* JavaScript values of a cell: null, undefined, a string, a number or a   *)
(* boolean.  One record shape for all of them, so that === is equality.    *)
(***************************************************************************)
Null == [t |-> "null", n |-> 0, s |-> <<>>, b |-> FALSE]

Undefined == [t |-> "undefined", n |-> 0, s |-> <<>>, b |-> FALSE]

StrV(s) == [t |-> "string", n |-> 0, s |-> s, b |-> FALSE]

Num(n) == [t |-> "number", n |-> n, s |-> <<>>, b |-> FALSE]

Bool(b) == [t |-> "boolean", n |-> 0, s |-> <<>>, b |-> b]

EmptyString == StrV(<<>>)

\* a field that the record does not carry
Absent == [t |-> "absent", n |-> 0, s |-> <<>>, b |-> FALSE]

\* typeof v
TypeOf(v) == v.t

\* ToBoolean(v), as in  v && ...  and  v || ...
Truthy(v) ==
    CASE v.t = "string" -> v.s # <<>>
      [] v.t = "number" -> v.n # 0
      [] v.t = "boolean" -> v.b
      [] OTHER -> FALSE

\* the hyperlink getter of a cell: no link, an empty link, a link, or a
\* getter that throws
HlNone == "none"

HlEmpty == ""

HlThrows == "throws"

HlLink == "https://example.com"

Cell(v, f, h) == [value |-> v, formattedValue |-> f, hyperlink |-> h]

\* the result of a read that throws instead of returning a value
ReadThrows == [t |-> "throws", n |-> 0, s |-> <<>>, b |-> FALSE]

\* what the read of a cell that was not loaded throws
MsgCellNotLoaded == "This cell has not been loaded yet"

(***************************************************************************)
(* detectCellType.                                                         *)
(***************************************************************************)
At(s, i) == IF i \in 1..Len(s) THEN s[i] ELSE ""

\* String.prototype.includes for a single character
Includes(s, ch) == \E i \in 1..Len(s) : s[i] = ch

\* the characters of the class [$ pound euro yen rupee ruble won]; the
\* non-ASCII symbols are written by name
CurrencySymbols == {"$", "POUND", "EURO", "YEN", "RUPEE", "RUBLE", "WON"}

\* n digits from index i on: \d{n}
DigitsAt(s, i, n) == \A k \in i..(i + n - 1) : At(s, k) \in Digits

\* \d{1,2} sep \d{1,2} sep \d{2,4}  matching at index i
NumericDateAt(s, i, sep) ==
    \E a \in 1..2, b \in 1..2, c \in 2..4 :
        /\ DigitsAt(s, i, a)
        /\ At(s, i + a) = sep
        /\ DigitsAt(s, i + a + 1, b)
        /\ At(s, i + a + 1 + b) = sep
        /\ DigitsAt(s, i + a + b + 2, c)

\* \d{4}-\d{2}-\d{2}  matching at index i
IsoDateAt(s, i) ==
    /\ DigitsAt(s, i, 4)
    /\ At(s, i + 4) = "-"
    /\ DigitsAt(s, i + 5, 2)
    /\ At(s, i + 7) = "-"
    /\ DigitsAt(s, i + 8, 2)

\* /\d{1,2}\/\d{1,2}\/\d{2,4}|\d{1,2}-\d{1,2}-\d{2,4}/ finds a match
FormattedDatePattern(s) ==
    \E i \in 1..Len(s) : NumericDateAt(s, i, "/") \/ NumericDateAt(s, i, "-")

\* the datePattern of the string branch, with the ISO alternative
datePattern(s) ==
    \E i \in 1..Len(s) :
        NumericDateAt(s, i, "/") \/ NumericDateAt(s, i, "-") \/ IsoDateAt(s, i)

\* the currency test placed before the percentage test
detectCellTypeCurrencyFirst(c) ==
    IF TypeOf(c.value) = "boolean" THEN "boolean"
    ELSE IF TypeOf(c.value) = "number" THEN
        LET formatted == IF Truthy(c.formattedValue) THEN c.formattedValue.s ELSE <<>>
        IN  IF \E ch \in CurrencySymbols : Includes(formatted, ch) THEN "currency"
            ELSE IF Includes(formatted, "%") THEN "percentage"
            ELSE IF FormattedDatePattern(formatted) THEN "date"
            ELSE "number"
    ELSE IF TypeOf(c.value) = "string" /\ datePattern(c.value.s) THEN "date"
    ELSE "string"

detectCellType(c) ==
    IF TypeOf(c.value) = "boolean" THEN "boolean"
    ELSE IF TypeOf(c.value) = "number" THEN
        LET formatted == IF Truthy(c.formattedValue) THEN c.formattedValue.s ELSE <<>>
        IN  IF Includes(formatted, "%") THEN "percentage"
            ELSE IF \E ch \in CurrencySymbols : Includes(formatted, ch) THEN "currency"
            ELSE IF FormattedDatePattern(formatted) THEN "date"
            ELSE "number"
    ELSE IF TypeOf(c.value) = "string" /\ datePattern(c.value.s) THEN "date"
    ELSE "string"

(***************************************************************************)
(* extractCellData.                                                        *)
(***************************************************************************)
\* sheet.getCell(row, col)
getCell(sh, row, col) == sh.grid[<<row, col>>]

\* the condition with || between the two halves
IsVisibleEither(c) ==
    \/ (c.value # Null /\ c.value # Undefined /\ c.value # EmptyString)
    \/ (c.formattedValue # Null /\ c.formattedValue # Undefined
            /\ c.formattedValue # EmptyString)

\* the condition under which a cell is included
IsVisible(c) ==
    /\ c.value # Null /\ c.value # Undefined /\ c.value # EmptyString
    /\ c.formattedValue # Null /\ c.formattedValue # Undefined
    /\ c.formattedValue # EmptyString

\* positions left zero-based
CellPosZeroBased(row, col) == <<row, col>>

\* pos with the column first
CellPosColumnFirst(row, col) == <<col + 1, row + 1>>

\* pos: [row + 1, col + 1]
CellPos(row, col) == <<row + 1, col + 1>>

\* cellData.fmt: set when formattedValue is truthy and !== value
CellFmt(c) ==
    IF Truthy(c.formattedValue) /\ c.formattedValue # c.value
    THEN c.formattedValue ELSE Absent

\* the hyperlink copied without the try and without the test
CellHyperlinkUnguarded(c) == c.hyperlink

\* cellData.hyperlink: set when the getter returns a truthy value; the
\* getter may throw, which the catch ignores
CellHyperlink(c) ==
    IF c.hyperlink = HlThrows \/ c.hyperlink = HlNone \/ c.hyperlink = HlEmpty
    THEN HlNone ELSE c.hyperlink

CellData(c, row, col) ==
    [pos |-> CellPos(row, col), val |-> c.value, type |-> detectCellType(c),
     fmt |-> CellFmt(c), hyperlink |-> CellHyperlink(c)]

\* the new record put in front of the list
Unshift(cells, cellData) == <<cellData>> \o cells

\* cells.push(cellData)
Push(cells, cellData) == Append(cells, cellData)

\* sheet.getCell(row, col), cell.value or cell.formattedValue throws
CellReadThrows(c) == c.value = ReadThrows \/ c.formattedValue = ReadThrows

\* the two nested for loops, from (row, col) on: the list of records, or the
\* error of the first read that throws, which nothing in the loops catches
RECURSIVE ScanCells(_, _, _, _)
ScanCells(sh, row, col, cells) ==
    IF row >= sh.rowCount THEN Returned(cells)
    ELSE IF col >= sh.columnCount THEN ScanCells(sh, row + 1, 0, cells)
    ELSE LET c == getCell(sh, row, col)
         IN  IF CellReadThrows(c) THEN Threw(MsgCellNotLoaded)
             ELSE ScanCells(sh, row, col + 1,
                            IF IsVisible(c) THEN Push(cells, CellData(c, row, col))
                            ELSE cells)

\* the positions the two loops hand to sheet.getCell, from (row, col) on, up
\* to the first read that throws
RECURSIVE ReadPositions(_, _, _, _)
ReadPositions(sh, row, col, read) ==
    IF row >= sh.rowCount THEN read
    ELSE IF col >= sh.columnCount THEN ReadPositions(sh, row + 1, 0, read)
    ELSE IF CellReadThrows(getCell(sh, row, col)) THEN read \cup {<<row, col>>}
    ELSE ReadPositions(sh, row, col + 1, read \cup {<<row, col>>})

\* the outcome of extractCellData(sheet)
extractCellData(sh) ==
    LET scanned == ScanCells(sh, 0, 0, <<>>)
    IN  IF scanned.threw THEN scanned
        ELSE Returned(
               [metadata |-> [title |-> sh.title,
                              dimensions |-> [rows |-> sh.rowCount,
                                              columns |-> sh.columnCount]],
                cells |-> scanned.value])

(***************************************************************************)
(* Arguments of detectCellType and extractCellData.                        *)
(***************************************************************************)
Hello == <<"h", "e", "l", "l", "o">>

RawValues ==
    { Null, Undefined, EmptyString,
      Num(0), Num(5), Num(42), Bool(TRUE), Bool(FALSE),
      StrV(Hello),
      StrV(<<"5">>),
      StrV(<<"2", "0", "2", "4", "-", "0", "1", "-", "1", "5">>),
      StrV(<<"1", "/", "2", "/", "2", "4">>),
      StrV(<<"1", "2", "-", "3", "1", "-", "2", "0", "2", "4">>),
      StrV(<<"1", "/", "2", "/", "3">>),
      StrV(<<"o", "n", " ", "1", "/", "2", "/", "2", "4">>),
      StrV(<<"2", "0", "2", "4", "/", "0", "1">>),
      StrV(<<"4", "2", "%">>) }

FormattedValues ==
    { Null, Undefined, EmptyString,
      StrV(<<"4", "2", "%">>),
      StrV(<<"$", "4", "2", ".", "0", "0">>),
      StrV(<<"4", "2">>),
      StrV(<<"5">>),
      StrV(<<"5", ".", "0", "0">>),
      StrV(<<"0">>),
      StrV(<<"$", "5", "%">>),
      StrV(<<"WON", "5">>),
      StrV(<<"EURO", "1", "/", "2", "/", "2", "4">>),
      StrV(<<"1", "/", "2", "/", "2", "4">>),
      StrV(<<"1", "/", "2", "/", "3", "4", "5">>),
      StrV(<<"1", "2", "-", "3", "1", "-", "2", "0", "2", "4">>),
      StrV(<<"2", "0", "2", "4", "-", "0", "1", "-", "1", "5">>),
      StrV(<<"1", "/", "2", "/", "3">>),
      StrV(<<"T", "R", "U", "E">>),
      StrV(Hello) }

TypeInputs == { Cell(v, f, HlNone) : v \in RawValues, f \in FormattedValues }

\* an empty cell of the grid
EmptyCell == Cell(Null, Null, HlNone)

\* a cell whose read throws
UnreadableCell == Cell(ReadThrows, ReadThrows, HlNone)

\* the cells that fill a grid
GridCells ==
    { Cell(Num(0), EmptyString, HlNone),
      Cell(Num(0), StrV(<<"0">>), HlNone),
      Cell(Bool(FALSE), StrV(<<"F", "A", "L", "S", "E">>), HlNone),
      Cell(StrV(Hello), StrV(Hello), HlLink),
      Cell(StrV(Hello), StrV(Hello), HlThrows),
      Cell(Num(5), StrV(<<"5", ".", "0", "0">>), HlNone),
      Cell(StrV(Hello), Null, HlNone),
      Cell(EmptyString, StrV(Hello), HlNone),
      Cell(Undefined, StrV(<<"0">>), HlNone),
      Cell(Num(5), StrV(<<"5">>), HlEmpty),
      UnreadableCell }

Positions(rows, cols) == (0..(rows - 1)) \X (0..(cols - 1))

\* the subsets of the positions that hold at most MaxFilled cells
FilledSets(rows, cols) ==
    { F \in SUBSET Positions(rows, cols) : Cardinality(F) <= MaxFilled }

\* the grid that holds the cells of f and empty cells elsewhere
GridOf(rows, cols, f) ==
    [p \in Positions(rows, cols) |-> IF p \in DOMAIN f THEN f[p] ELSE EmptyCell]

SheetTitle == "Sheet1"

SheetOf(rows, cols, f) ==
    [title |-> SheetTitle, rowCount |-> rows, columnCount |-> cols,
     grid |-> GridOf(rows, cols, f)]

(***************************************************************************)
(* The values of the variables a specification does not use.               *)
(***************************************************************************)
EmptySheet == [title |-> SheetTitle, rowCount |-> 0, columnCount |-> 0, grid |-> <<>>]

UrlIdle == url = Str(<<>>) /\ urlMeta = NoMeta /\ urlResult = NotRun

TypeIdle == cell = EmptyCell /\ cellType = NotRun

CellsIdle == sheet = EmptySheet /\ extracted = NotRun

KeyIdle == privateKey = <<>> /\ formattedPrivateKey = NotRun

LegacyIdle == legacyCells = NotRun

LogIdle ==
    /\ env = [LOG_LEVEL |-> "unset", DEBUG |-> "unset"]
    /\ logger = [logLevel |-> "info", debugMode |-> FALSE]
    /\ called = <<>> /\ stderr = <<>> /\ stdout = <<>>

RestIdle == KeyIdle /\ LegacyIdle /\ LogIdle

ServerIdle ==
    /\ sheetsService = 0
    /\ instances = <<>>
    /\ credentialsVar = "unset"
    /\ calls = <<>>

(***************************************************************************)
(* Specification SpecUrl: extractSheetIdFromUrl applied to one argument.   *)
(***************************************************************************)
InitUrl ==
    /\ \E in \in UrlInputs : url = in.url /\ urlMeta = in.meta
    /\ urlResult = NotRun
    /\ TypeIdle /\ CellsIdle /\ ServerIdle /\ RestIdle

Resolve ==
    /\ ~urlResult.done
    /\ urlResult' = extractSheetIdFromUrl(url)
    /\ UNCHANGED <<url, urlMeta, typeVars, cellVars, serverVars, restVars>>

NextUrl == Resolve

SpecUrl == InitUrl /\ [][NextUrl]_vars

(***************************************************************************)
(* Specification SpecType: detectCellType applied to one cell.             *)
(***************************************************************************)
InitType ==
    /\ cell \in TypeInputs
    /\ cellType = NotRun
    /\ UrlIdle /\ CellsIdle /\ ServerIdle /\ RestIdle

Detect ==
    /\ ~cellType.done
    /\ cellType' = Returned(detectCellType(cell))
    /\ UNCHANGED <<cell, urlVars, cellVars, serverVars, restVars>>

NextType == Detect

SpecType == InitType /\ [][NextType]_vars

(***************************************************************************)
(* Specification SpecCells: extractCellData applied to one worksheet.      *)
(***************************************************************************)
InitCells ==
    /\ \E rows \in 0..MaxRows, cols \in 0..MaxCols :
          \E filled \in FilledSets(rows, cols) :
              \E f \in [filled -> GridCells] : sheet = SheetOf(rows, cols, f)
    /\ extracted = NotRun
    /\ UrlIdle /\ TypeIdle /\ ServerIdle /\ RestIdle

Extract ==
    /\ ~extracted.done
    /\ extracted' = extractCellData(sheet)
    /\ UNCHANGED <<sheet, urlVars, typeVars, serverVars, restVars>>

NextCells == Extract

SpecCells == InitCells /\ [][NextCells]_vars

(***************************************************************************)
(* Error messages of the service methods, of the initialisation and of     *)
(* the collaborators.                                                      *)
(***************************************************************************)
MsgNotInitialized == "Service not initialized. Call initialize() first."

MsgSummaryFailed ==
    "Failed to retrieve spreadsheet summary. Please check the URL and your permissions."

MsgSheetNotFound ==
    "Specified sheet not found. Please check the sheet name and try again."

MsgSheetDataFailed ==
    "Failed to retrieve sheet data. Please check the sheet name and your permissions."

MsgMissingEnv ==
    "Missing GOOGLE_CREDENTIALS_JSON_FILE environment variable. Please configure the credentials JSON file path in the extension settings."

MsgPlaceholder ==
    "Environment variable interpolation failed. Credentials file path contains unresolved placeholders. Please check your extension configuration in Claude Desktop settings."

MsgInvalidCredentials ==
    "Invalid credentials JSON file. Missing required fields: client_email, private_key, or project_id"

MsgAuthFailed ==
    "Authentication configuration failed. Please check your service account credentials."

\* errors of fs.readFile and JSON.parse
MsgNoSuchFile == "ENOENT: no such file or directory"

MsgJsonSyntax == "SyntaxError: Unexpected token in JSON"

\* errors of the spreadsheet service (loadInfo, loadCells)
UpstreamErrors ==
    {"Google API error - [403] The caller does not have permission",
     "getaddrinfo ENOTFOUND sheets.googleapis.com"}

\* an error while the handler builds the response text
MsgFormatError == "TypeError: Converting circular structure to JSON"

(***************************************************************************)
(* The remote spreadsheet: what loadInfo and loadCells deliver.            *)
(***************************************************************************)
Worksheet1 ==
    [title |-> "Sheet1", rowCount |-> 2, columnCount |-> 2,
     grid |-> [p \in Positions(2, 2) |->
                  CASE p = <<0, 0>> -> Cell(StrV(Hello), StrV(Hello), HlLink)
                    [] p = <<1, 1>> -> Cell(Num(5), StrV(<<"5", ".", "0", "0">>), HlNone)
                    [] OTHER -> EmptyCell]]

Worksheet2 ==
    [title |-> "Data", rowCount |-> 1, columnCount |-> 1,
     grid |-> [p \in Positions(1, 1) |-> Cell(Num(0), StrV(<<"0">>), HlNone)]]

Workbook == [title |-> "Budget", sheets |-> <<Worksheet1, Worksheet2>>]

\* a worksheet after loadCells: every cell loaded, or the last cell left out
LoadedSheets(sh) ==
    { sh,
      [sh EXCEPT !.grid[<<sh.rowCount - 1, sh.columnCount - 1>>] = UnreadableCell] }

\* doc.sheetsByTitle[sheetName]: the index of the worksheet with exactly
\* this title, 0 when there is none
SheetByTitle(doc, sheetName) ==
    IF \E i \in 1..Len(doc.sheets) : doc.sheets[i].title = sheetName
    THEN CHOOSE i \in 1..Len(doc.sheets) : doc.sheets[i].title = sheetName
    ELSE 0

(***************************************************************************)
(* Tool invocations.                                                       *)
(***************************************************************************)
Calls == 1..MaxCalls

ToolSummary == "get_spreadsheet_summary"

ToolSheetData == "get_spreadsheet_sheet_data"

ValidUrl == Str(HttpsDocs \o patterns[1] \o <<"1", "B", "x", "i">> \o <<"/", "e", "d", "i", "t">>)

NotAUrl == Str(<<"n", "o", "t", " ", "a", " ", "u", "r", "l">>)

ToolUrls == {ValidUrl, NotAUrl}

\* the arguments of get_spreadsheet_sheet_data: the title of a worksheet,
\* a title that differs from it in case only, and a string that is no URL
SheetDataInputs ==
    { [url |-> ValidUrl, sheetName |-> "Sheet1"],
      [url |-> ValidUrl, sheetName |-> "sheet1"],
      [url |-> NotAUrl, sheetName |-> "Sheet1"] }

NoResponse == [sent |-> FALSE, isError |-> "absent", prefix |-> "", message |-> "", data |-> <<>>]

\* { content: [{ type: 'text', text: `Error: ${error.message}` }], isError: true }
ErrorResponse(msg) ==
    [sent |-> TRUE, isError |-> "true", prefix |-> "Error: ", message |-> msg, data |-> <<>>]

\* { content: [{ type: 'text', text: ... }] }
SuccessResponse(tool, result) ==
    [sent |-> TRUE, isError |-> "absent",
     prefix |-> IF tool = ToolSummary THEN "**Google Sheet Summary: "
                ELSE "**Google Sheet Data: ",
     message |-> "", data |-> result]

IdleCall ==
    [pc |-> "idle", tool |-> "", url |-> Str(<<>>), sheetName |-> "",
     ranInit |-> FALSE,        \* the invocation called initializeSheetsService
     instance |-> 0,           \* the service instance the method was called on
     resolved |-> FALSE,       \* extractSheetIdFromUrl returned an identifier
     sheetId |-> <<>>,
     sheetIndex |-> 0,         \* the worksheet found by title
     lookupMissed |-> FALSE,   \* no worksheet has the title
     loadInfoCalls |-> 0, loadCellsCalls |-> 0,
     failure |-> "none",       \* the step that threw
     cause |-> "",             \* the message of the error that step threw
     raised |-> "",            \* the message of the error the service method threw
     escaped |-> FALSE,        \* an exception left the handler
     response |-> NoResponse]

\* the exception leaves the handler
HandlerRethrow(c, msg) == [c EXCEPT !.pc = "done", !.escaped = TRUE]

\* the catch block of a tool handler
HandlerCatch(c, msg) == [c EXCEPT !.pc = "done", !.response = ErrorResponse(msg)]

\* initializeSheetsService throws (its catch block logs and rethrows)
InitThrow(c, msg) ==
    HandlerCatch([c EXCEPT !.failure = "init", !.cause = msg], msg)

\* both catch blocks throwing the message of getSheetData
GenericMessageOfSheetData(tool) == MsgSheetDataFailed

\* the catch block of a service method: a fixed message per method
GenericMessage(tool) ==
    IF tool = ToolSummary THEN MsgSummaryFailed ELSE MsgSheetDataFailed

\* the catch block of a service method rethrowing the error it caught
ServiceThrowPassing(c, step, msg) ==
    HandlerCatch([c EXCEPT !.failure = step, !.cause = msg, !.raised = msg], msg)

\* an error thrown inside the try block of a service method: the method's
\* catch block replaces it, the handler's catch block answers
ServiceThrow(c, step, msg) ==
    HandlerCatch([c EXCEPT !.failure = step, !.cause = msg,
                           !.raised = GenericMessage(c.tool)],
                 GenericMessage(c.tool))

\* the service method returned: the handler builds the response text
HandlerRespond(c, result, formatThrows) ==
    IF formatThrows
    THEN HandlerCatch([c EXCEPT !.failure = "format", !.cause = MsgFormatError],
                      MsgFormatError)
    ELSE [c EXCEPT !.pc = "done", !.response = SuccessResponse(c.tool, result)]

\* the method without the check of this.auth
CallServiceUnguarded(c, service, inst) ==
    LET r == extractSheetIdFromUrl(c.url)
    IN  IF r.threw
        THEN ServiceThrow([c EXCEPT !.instance = service], "url", r.message)
        ELSE [c EXCEPT !.instance = service, !.resolved = TRUE,
                       !.sheetId = r.value,
                       !.loadInfoCalls = @ + 1, !.pc = "await_loadInfo"]

\* the method calling loadInfo before it resolves the URL
CallServiceLoadingFirst(c, service, inst) ==
    IF ~inst.auth
    THEN ServiceThrow([c EXCEPT !.instance = service], "not_initialized", MsgNotInitialized)
    ELSE LET r == extractSheetIdFromUrl(c.url)
         IN  IF r.threw
             THEN ServiceThrow([c EXCEPT !.instance = service, !.loadInfoCalls = @ + 1],
                               "url", r.message)
             ELSE [c EXCEPT !.instance = service, !.resolved = TRUE,
                            !.sheetId = r.value,
                            !.loadInfoCalls = @ + 1, !.pc = "await_loadInfo"]

\* getSpreadsheetSummary / getSheetData up to  await doc.loadInfo()
CallService(c, service, inst) ==
    IF ~inst.auth
    THEN ServiceThrow([c EXCEPT !.instance = service], "not_initialized", MsgNotInitialized)
    ELSE LET r == extractSheetIdFromUrl(c.url)
         IN  IF r.threw
             THEN ServiceThrow([c EXCEPT !.instance = service], "url", r.message)
             ELSE [c EXCEPT !.instance = service, !.resolved = TRUE,
                            !.sheetId = r.value,
                            !.loadInfoCalls = @ + 1, !.pc = "await_loadInfo"]

\* the sheetNames loop and the result object of getSpreadsheetSummary
SummaryResult(c, doc) ==
    [id |-> c.sheetId, title |-> doc.title, sheetCount |-> Len(doc.sheets),
     sheetNames |-> [i \in 1..Len(doc.sheets) |->
                        [name |-> doc.sheets[i].title, index |-> i - 1,
                         rowCount |-> doc.sheets[i].rowCount,
                         columnCount |-> doc.sheets[i].columnCount]]]

\* the summary loading the cells of every worksheet
SummaryAfterLoadInfoLoadingCells(c, doc, formatThrows) ==
    HandlerRespond([c EXCEPT !.loadCellsCalls = @ + Len(doc.sheets)],
                   SummaryResult(c, doc), formatThrows)

\* getSpreadsheetSummary after loadInfo has resolved
SummaryAfterLoadInfo(c, doc, formatThrows) ==
    HandlerRespond(c, SummaryResult(c, doc), formatThrows)

\* getSheetData throwing the worksheet-not-found error past its catch block
SheetDataAfterLoadInfoUncaught(c, doc) ==
    LET i == SheetByTitle(doc, c.sheetName)
    IN  IF i = 0
        THEN ServiceThrowPassing([c EXCEPT !.lookupMissed = TRUE], "worksheet",
                                 MsgSheetNotFound)
        ELSE [c EXCEPT !.sheetIndex = i, !.loadCellsCalls = @ + 1,
                       !.pc = "await_loadCells"]

\* getSheetData after loadInfo has resolved, up to  await sheet.loadCells()
SheetDataAfterLoadInfo(c, doc) ==
    LET i == SheetByTitle(doc, c.sheetName)
    IN  IF i = 0
        THEN ServiceThrow([c EXCEPT !.lookupMissed = TRUE], "worksheet", MsgSheetNotFound)
        ELSE [c EXCEPT !.sheetIndex = i, !.loadCellsCalls = @ + 1,
                       !.pc = "await_loadCells"]

\* the result object of getSheetData
SheetDataResult(c, doc, extractedData) ==
    [spreadsheetId |-> c.sheetId, spreadsheetTitle |-> doc.title,
     metadata |-> [title |-> extractedData.metadata.title,
                   dimensions |-> extractedData.metadata.dimensions,
                   sheetIndex |-> c.sheetIndex - 1],
     cells |-> extractedData.cells]

\* getSheetData after loadCells has resolved: an error of extractCellData
\* lands in the catch of getSheetData like any other
SheetDataAfterLoadCells(c, doc, sh, formatThrows) ==
    LET extraction == extractCellData(sh)
    IN  IF extraction.threw
        THEN ServiceThrow(c, "extract", extraction.message)
        ELSE HandlerRespond(c, SheetDataResult(c, doc, extraction.value), formatThrows)

(***************************************************************************)
(* Specification Spec: the tool handlers.  A handler runs from one await   *)
(* to the next in one step.                                                *)
(***************************************************************************)
CredentialsVarStates == {"unset", "empty", "placeholder", "path"}

\* the credentials file: one that cannot be read, one that is not JSON, or
\* the object JSON.parse returns, with the three fields the code reads
FileUnreadable ==
    [readable |-> FALSE, parsable |-> FALSE, client_email |-> Undefined,
     private_key |-> Undefined, project_id |-> Undefined]

FileUnparsable == [FileUnreadable EXCEPT !.readable = TRUE]

ParsedFile(email, key, project) ==
    [readable |-> TRUE, parsable |-> TRUE, client_email |-> email,
     private_key |-> key, project_id |-> project]

ClientEmail == StrV(<<"a", "@", "b">>)

\* a private key with an escaped newline, as service account files hold it
PrivateKey == StrV(<<"K", "\\", "n", "E">>)

ProjectId == StrV(<<"p">>)

\* a service account file with the three fields
CompleteFile == ParsedFile(ClientEmail, PrivateKey, ProjectId)

\* a field that the object does not have, or has as ''
FieldGaps == {Undefined, EmptyString}

\* the files: unreadable, not JSON, complete, or with one field missing or empty
CredentialsFileStates ==
    {FileUnreadable, FileUnparsable, CompleteFile}
    \cup { [CompleteFile EXCEPT !.client_email = gap] : gap \in FieldGaps }
    \cup { [CompleteFile EXCEPT !.private_key = gap] : gap \in FieldGaps }
    \cup { [CompleteFile EXCEPT !.project_id = gap] : gap \in FieldGaps }

\* !serviceAccountEmail || !privateKey || !projectId
MissingField(credentials) ==
    \/ ~Truthy(credentials.client_email)
    \/ ~Truthy(credentials.private_key)
    \/ ~Truthy(credentials.project_id)

\* the replace without the g flag: the first occurrence only
ReplaceFirstEscapedNewline(s) ==
    IF \E i \in 1..(Len(s) - 1) : s[i] = "\\" /\ s[i + 1] = "n"
    THEN LET i == CHOOSE i \in 1..(Len(s) - 1) :
                      /\ s[i] = "\\" /\ s[i + 1] = "n"
                      /\ \A j \in 1..(i - 1) : ~(s[j] = "\\" /\ s[j + 1] = "n")
         IN  SubSeq(s, 1, i - 1) \o <<"\n">> \o SubSeq(s, i + 2, Len(s))
    ELSE s

\* s.replace(/\\n/g, '\n') on the characters of s
RECURSIVE ReplaceEscapedNewlines(_)
ReplaceEscapedNewlines(s) ==
    IF Len(s) >= 2 /\ s[1] = "\\" /\ s[2] = "n"
    THEN <<"\n">> \o ReplaceEscapedNewlines(SubSeq(s, 3, Len(s)))
    ELSE IF s = <<>> THEN <<>>
    ELSE <<s[1]>> \o ReplaceEscapedNewlines(Tail(s))

\* the argument of  new GoogleSheetsService({...})
ServiceConfig(credentials) ==
    [serviceAccountEmail |-> credentials.client_email,
     privateKey |-> StrV(ReplaceEscapedNewlines(credentials.private_key.s)),
     projectId |-> credentials.project_id]

\* the constructor: this.config = config, this.auth = null
NewInstance(config) == [config |-> config, auth |-> FALSE]

Init ==
    /\ sheetsService = 0
    /\ instances = <<>>
    /\ credentialsVar \in CredentialsVarStates
    /\ calls = [p \in Calls |-> IdleCall]
    /\ UrlIdle /\ TypeIdle /\ CellsIdle /\ RestIdle

\* the handler calling initializeSheetsService whatever the handle holds
InvokeAlwaysInitialising(p, tool, u, name) ==
    /\ calls[p].pc = "idle"
    /\ \A q \in Calls : q < p => calls[q].pc # "idle"
    /\ LET c == [calls[p] EXCEPT !.tool = tool, !.url = u, !.sheetName = name]
       IN  calls' = [calls EXCEPT ![p] =
                IF credentialsVar \in {"unset", "empty"}
                THEN InitThrow([c EXCEPT !.ranInit = TRUE], MsgMissingEnv)
                ELSE IF credentialsVar = "placeholder"
                THEN InitThrow([c EXCEPT !.ranInit = TRUE], MsgPlaceholder)
                ELSE [c EXCEPT !.ranInit = TRUE, !.pc = "await_import_fs"]]
    /\ UNCHANGED <<sheetsService, instances, credentialsVar, urlVars, typeVars, cellVars, restVars>>

\* the handler is invoked (the invocations are numbered in the order of
\* their arrival): the lazy initialisation check, then either
\* initializeSheetsService up to its first await or the service method
Invoke(p, tool, u, name) ==
    /\ calls[p].pc = "idle"
    /\ \A q \in Calls : q < p => calls[q].pc # "idle"
    /\ LET c == [calls[p] EXCEPT !.tool = tool, !.url = u, !.sheetName = name]
       IN  IF sheetsService = 0
           THEN calls' = [calls EXCEPT ![p] =
                    IF credentialsVar \in {"unset", "empty"}
                    THEN InitThrow([c EXCEPT !.ranInit = TRUE], MsgMissingEnv)
                    ELSE IF credentialsVar = "placeholder"
                    THEN InitThrow([c EXCEPT !.ranInit = TRUE], MsgPlaceholder)
                    ELSE [c EXCEPT !.ranInit = TRUE, !.pc = "await_import_fs"]]
           ELSE calls' = [calls EXCEPT ![p] =
                    CallService(c, sheetsService, instances[sheetsService])]
    /\ UNCHANGED <<sheetsService, instances, credentialsVar, urlVars, typeVars, cellVars, restVars>>

InvokeSummary(p) == \E u \in ToolUrls : Invoke(p, ToolSummary, u, "")

InvokeSheetData(p) ==
    \E in \in SheetDataInputs : Invoke(p, ToolSheetData, in.url, in.sheetName)

\* await import('fs/promises') resolves
ImportFs(p) ==
    /\ calls[p].pc = "await_import_fs"
    /\ calls' = [calls EXCEPT ![p].pc = "await_import_path"]
    /\ UNCHANGED <<sheetsService, instances, credentialsVar, urlVars, typeVars, cellVars, restVars>>

\* await import('path') resolves; path.resolve, then fs.readFile is called
ImportPath(p) ==
    /\ calls[p].pc = "await_import_path"
    /\ calls' = [calls EXCEPT ![p].pc = "await_readFile"]
    /\ UNCHANGED <<sheetsService, instances, credentialsVar, urlVars, typeVars, cellVars, restVars>>

\* initialize() building the auth client only after an await of its own:
\* the handle names the new instance while its auth is still null
ReadFileAuthLater(p, file, jwtThrows) ==
    /\ calls[p].pc = "await_readFile"
    /\ IF ~file.readable
       THEN /\ calls' = [calls EXCEPT ![p] = InitThrow(@, MsgNoSuchFile)]
            /\ UNCHANGED <<sheetsService, instances>>
       ELSE IF ~file.parsable
       THEN /\ calls' = [calls EXCEPT ![p] = InitThrow(@, MsgJsonSyntax)]
            /\ UNCHANGED <<sheetsService, instances>>
       ELSE IF MissingField(file)
       THEN /\ calls' = [calls EXCEPT ![p] = InitThrow(@, MsgInvalidCredentials)]
            /\ UNCHANGED <<sheetsService, instances>>
       ELSE /\ instances' = Append(instances, NewInstance(ServiceConfig(file)))
            /\ sheetsService' = Len(instances) + 1
            /\ calls' = [calls EXCEPT ![p].pc = "await_initialize"]
    /\ UNCHANGED <<credentialsVar, urlVars, typeVars, cellVars, restVars>>

\* the service constructed before the required fields are checked
ReadFileConstructingFirst(p, file, jwtThrows) ==
    /\ calls[p].pc = "await_readFile"
    /\ IF ~file.readable
       THEN /\ calls' = [calls EXCEPT ![p] = InitThrow(@, MsgNoSuchFile)]
            /\ UNCHANGED <<sheetsService, instances>>
       ELSE IF ~file.parsable
       THEN /\ calls' = [calls EXCEPT ![p] = InitThrow(@, MsgJsonSyntax)]
            /\ UNCHANGED <<sheetsService, instances>>
       ELSE /\ instances' = Append(instances,
                    [NewInstance(ServiceConfig(file)) EXCEPT
                        !.auth = ~jwtThrows /\ ~MissingField(file)])
            /\ sheetsService' = Len(instances) + 1
            /\ calls' = [calls EXCEPT ![p] =
                    IF MissingField(file) THEN InitThrow(@, MsgInvalidCredentials)
                    ELSE IF jwtThrows THEN InitThrow(@, MsgAuthFailed)
                    ELSE [@ EXCEPT !.pc = "await_initialize"]]
    /\ UNCHANGED <<credentialsVar, urlVars, typeVars, cellVars, restVars>>

\* fs.readFile settles; JSON.parse, the field check, the construction of
\* the service and the call of initialize() follow without an await
ReadFile(p, file, jwtThrows) ==
    /\ calls[p].pc = "await_readFile"
    /\ IF ~file.readable
       THEN /\ calls' = [calls EXCEPT ![p] = InitThrow(@, MsgNoSuchFile)]
            /\ UNCHANGED <<sheetsService, instances>>
       ELSE IF ~file.parsable
       THEN /\ calls' = [calls EXCEPT ![p] = InitThrow(@, MsgJsonSyntax)]
            /\ UNCHANGED <<sheetsService, instances>>
       ELSE IF MissingField(file)
       THEN /\ calls' = [calls EXCEPT ![p] = InitThrow(@, MsgInvalidCredentials)]
            /\ UNCHANGED <<sheetsService, instances>>
       ELSE /\ instances' = Append(instances,
                    [NewInstance(ServiceConfig(file)) EXCEPT !.auth = ~jwtThrows])
            /\ sheetsService' = Len(instances) + 1
            /\ calls' = [calls EXCEPT ![p] =
                    IF jwtThrows THEN InitThrow(@, MsgAuthFailed)
                    ELSE [@ EXCEPT !.pc = "await_initialize"]]
    /\ UNCHANGED <<credentialsVar, urlVars, typeVars, cellVars, restVars>>

\* new JWT(...) can throw only where the code gets as far as calling it
ReadFileSettles(p) ==
    \E file \in CredentialsFileStates :
        \E jwtThrows \in IF file = CompleteFile THEN BOOLEAN ELSE {FALSE} :
            ReadFile(p, file, jwtThrows)

\* await sheetsService.initialize() and await initializeSheetsService()
\* resolve; the handler calls the service method on the module-level handle
InitializeDone(p) ==
    /\ calls[p].pc = "await_initialize"
    /\ calls' = [calls EXCEPT ![p] =
            CallService(@, sheetsService, instances[sheetsService])]
    /\ UNCHANGED <<sheetsService, instances, credentialsVar, urlVars, typeVars, cellVars, restVars>>

\* await doc.loadInfo() rejects and the method calls it again
LoadInfoFailsRetrying(p) ==
    /\ calls[p].pc = "await_loadInfo"
    /\ calls' = [calls EXCEPT ![p].loadInfoCalls = @ + 1]
    /\ UNCHANGED <<sheetsService, instances, credentialsVar, urlVars, typeVars, cellVars, restVars>>

\* await doc.loadInfo() rejects
LoadInfoFails(p) ==
    /\ calls[p].pc = "await_loadInfo"
    /\ \E msg \in UpstreamErrors :
          calls' = [calls EXCEPT ![p] = ServiceThrow(@, "loadInfo", msg)]
    /\ UNCHANGED <<sheetsService, instances, credentialsVar, urlVars, typeVars, cellVars, restVars>>

\* await doc.loadInfo() resolves
LoadInfoDone(p) ==
    /\ calls[p].pc = "await_loadInfo"
    /\ IF calls[p].tool = ToolSummary
       THEN \E formatThrows \in BOOLEAN :
                calls' = [calls EXCEPT ![p] = SummaryAfterLoadInfo(@, Workbook, formatThrows)]
       ELSE calls' = [calls EXCEPT ![p] = SheetDataAfterLoadInfo(@, Workbook)]
    /\ UNCHANGED <<sheetsService, instances, credentialsVar, urlVars, typeVars, cellVars, restVars>>

\* await sheet.loadCells() rejects and the service drops its auth client
LoadCellsFailsResetting(p) ==
    /\ calls[p].pc = "await_loadCells"
    /\ \E msg \in UpstreamErrors :
          calls' = [calls EXCEPT ![p] = ServiceThrow(@, "loadCells", msg)]
    /\ instances' = [instances EXCEPT ![calls[p].instance].auth = FALSE]
    /\ UNCHANGED <<sheetsService, credentialsVar, urlVars, typeVars, cellVars, restVars>>

\* await sheet.loadCells() rejects
LoadCellsFails(p) ==
    /\ calls[p].pc = "await_loadCells"
    /\ \E msg \in UpstreamErrors :
          calls' = [calls EXCEPT ![p] = ServiceThrow(@, "loadCells", msg)]
    /\ UNCHANGED <<sheetsService, instances, credentialsVar, urlVars, typeVars, cellVars, restVars>>

\* await sheet.loadCells() resolves: extractCellData, the result, the response
LoadCellsDone(p) ==
    /\ calls[p].pc = "await_loadCells"
    /\ \E sh \in LoadedSheets(Workbook.sheets[calls[p].sheetIndex]),
          formatThrows \in BOOLEAN :
          calls' = [calls EXCEPT ![p] =
                SheetDataAfterLoadCells(@, Workbook, sh, formatThrows)]
    /\ UNCHANGED <<sheetsService, instances, credentialsVar, urlVars, typeVars, cellVars, restVars>>

Next ==
    \E p \in Calls :
        \/ InvokeSummary(p)
        \/ InvokeSheetData(p)
        \/ ImportFs(p)
        \/ ImportPath(p)
        \/ ReadFileSettles(p)
        \/ InitializeDone(p)
        \/ LoadInfoFails(p)
        \/ LoadInfoDone(p)
        \/ LoadCellsFails(p)
        \/ LoadCellsDone(p)

Spec == Init /\ [][Next]_vars

(***************************************************************************)
(* Specification SpecService: the tool handlers from the point where an    *)
(* earlier invocation has run initializeSheetsService as far as the        *)
(* construction of the service: the handle names an instance whose         *)
(* initialize() has built the auth client, or has failed to.               *)
(***************************************************************************)
InitService ==
    /\ sheetsService = 1
    /\ \E jwtThrows \in BOOLEAN :
          instances = <<[NewInstance(ServiceConfig(CompleteFile)) EXCEPT !.auth = ~jwtThrows]>>
    /\ credentialsVar = "path"
    /\ calls = [p \in Calls |-> IdleCall]
    /\ UrlIdle /\ TypeIdle /\ CellsIdle /\ RestIdle

NextService ==
    \E p \in Calls :
        \/ InvokeSummary(p)
        \/ InvokeSheetData(p)
        \/ LoadInfoFails(p)
        \/ LoadInfoDone(p)
        \/ LoadCellsFails(p)
        \/ LoadCellsDone(p)

SpecService == InitService /\ [][NextService]_vars

(***************************************************************************)
(* Specification SpecInit: the tool handlers as far as the first outbound  *)
(* call: the lazy initialisation and the entry into the service method,    *)
(* with loadInfo still pending.                                            *)
(***************************************************************************)
NextInit ==
    \E p \in Calls :
        \/ InvokeSummary(p)
        \/ InvokeSheetData(p)
        \/ ImportFs(p)
        \/ ImportPath(p)
        \/ ReadFileSettles(p)
        \/ InitializeDone(p)

SpecInit == Init /\ [][NextInit]_vars

(***************************************************************************)
(* Specification SpecKey: the formatting of one private key.               *)
(***************************************************************************)
\* a backslash, the letter n, another letter, a newline
KeyAlphabet == {"\\", "n", "K", "\n"}

\* the keys that pass the required-fields check: not empty
KeyInputs == SeqsUpTo(KeyAlphabet, MaxKeyLen) \ {<<>>}

InitKey ==
    /\ privateKey \in KeyInputs
    /\ formattedPrivateKey = NotRun
    /\ UrlIdle /\ TypeIdle /\ CellsIdle /\ ServerIdle /\ LegacyIdle /\ LogIdle

\* const formattedPrivateKey = privateKey.replace(/\\n/g, '\n')
FormatKey ==
    /\ ~formattedPrivateKey.done
    /\ formattedPrivateKey' = Returned(ReplaceEscapedNewlines(privateKey))
    /\ UNCHANGED <<privateKey, urlVars, typeVars, cellVars, serverVars,
                   legacyVars, logVars>>

NextKey == FormatKey

SpecKey == InitKey /\ [][NextKey]_vars

(***************************************************************************)
(* Claims about extractSheetIdFromUrl (SpecUrl).                           *)
(***************************************************************************)
\* C1: for every identifier X over [A-Za-z0-9_-]+ and every well-formed URL
\* of one of the three shapes embedding X (a base, the literal of the
\* shape, X, then nothing or text led by a delimiter),
\* extractSheetIdFromUrl returns exactly X.
C1_RoundTrip ==
    (urlResult.done /\ urlMeta.shape \in 1..3) =>
        (~urlResult.threw /\ urlResult.value = urlMeta.id)

C1_Witness ==
    /\ urlResult.done
    /\ urlMeta.shape = 3
    /\ Len(urlMeta.id) = MaxIdLen
    /\ urlResult.value = urlMeta.id

\* C2, as claimed: when none of the three patterns matches the string,
\* the error signalled is the no-match error 'Could not extract sheet ID
\* from URL', not the wrapping 'Invalid Google Sheets URL format' error.
C2_NoMatchError ==
    (urlResult.done /\ url.kind = "string" /\ TryPatterns(url.s, 1) = <<>>) =>
        (urlResult.threw /\ urlResult.message = MsgCouldNotExtract)

(***************************************************************************)
(* Claims about extractCellData (SpecCells).                               *)
(***************************************************************************)
EmittedCells == extracted.value.cells

SheetPositions == Positions(sheet.rowCount, sheet.columnCount)

\* the value is none of null, undefined, ''
NonEmpty(v) == v \notin {Null, Undefined, EmptyString}

\* the list holds a record for the grid cell at zero-based p
EmittedAt(p) ==
    \E k \in 1..Len(EmittedCells) : EmittedCells[k].pos = <<p[1] + 1, p[2] + 1>>

\* C3: a cell within the declared bounds appears in the list returned by
\* extractCellData if and only if its raw value is none of null, undefined,
\* '' and its formatted value is none of null, undefined, ''.
C3_Visibility ==
    (extracted.done /\ ~extracted.threw) =>
        \A p \in SheetPositions :
            EmittedAt(p) <=>
                (NonEmpty(sheet.grid[p].value) /\ NonEmpty(sheet.grid[p].formattedValue))

\* raw 0 with formatted "0" is emitted, raw 0 with formatted '' is dropped
C3_Witness ==
    /\ extracted.done /\ ~extracted.threw
    /\ \E p, q \in SheetPositions :
        /\ sheet.grid[p] = Cell(Num(0), StrV(<<"0">>), HlNone) /\ EmittedAt(p)
        /\ sheet.grid[q] = Cell(Num(0), EmptyString, HlNone) /\ ~EmittedAt(q)

\* C4: the record emitted for the grid cell at zero-based (r, c) carries
\* pos = [r+1, c+1] and val = the raw value of that grid cell: every
\* record is the record of the in-bounds cell its pos names, and every
\* visible cell has its record.
C4_Position ==
    (extracted.done /\ ~extracted.threw) =>
        /\ \A k \in 1..Len(EmittedCells) :
              \E p \in SheetPositions :
                  /\ EmittedCells[k].pos = <<p[1] + 1, p[2] + 1>>
                  /\ EmittedCells[k].val = sheet.grid[p].value
                  /\ IsVisible(sheet.grid[p])
        /\ \A p \in SheetPositions :
              IsVisible(sheet.grid[p]) =>
                  \E k \in 1..Len(EmittedCells) :
                      /\ EmittedCells[k].pos = <<p[1] + 1, p[2] + 1>>
                      /\ EmittedCells[k].val = sheet.grid[p].value

\* two records with different raw values, at the far corner and next to it
C4_Witness ==
    /\ extracted.done /\ ~extracted.threw
    /\ Len(EmittedCells) = 2
    /\ EmittedCells[1].val # EmittedCells[2].val
    /\ EmittedCells[2].pos = <<sheet.rowCount, sheet.columnCount>>
    /\ sheet.rowCount = MaxRows /\ sheet.columnCount = MaxCols

LexLess(a, b) == a[1] < b[1] \/ (a[1] = b[1] /\ a[2] < b[2])

\* C5: for any two emitted cells A before B, A.row < B.row, or the rows
\* are equal and A.col < B.col; so no position appears twice.
C5_RowMajor ==
    (extracted.done /\ ~extracted.threw) =>
        \A i, j \in 1..Len(EmittedCells) :
            i < j => /\ LexLess(EmittedCells[i].pos, EmittedCells[j].pos)
                     /\ EmittedCells[i].pos # EmittedCells[j].pos

\* the earlier record is in a lower row and a higher column
C5_Witness ==
    /\ extracted.done /\ ~extracted.threw
    /\ Len(EmittedCells) = 2
    /\ EmittedCells[1].pos[1] < EmittedCells[2].pos[1]
    /\ EmittedCells[1].pos[2] > EmittedCells[2].pos[2]

\* String(v) of a raw value
DigitChar(d) == <<"0", "1", "2", "3", "4", "5", "6", "7", "8", "9">>[d + 1]

RECURSIVE NatString(_)
NatString(n) ==
    IF n < 10 THEN <<DigitChar(n)>> ELSE Append(NatString(n \div 10), DigitChar(n % 10))

JsString(v) ==
    CASE v.t = "string" -> v.s
      [] v.t = "number" -> NatString(v.n)
      [] v.t = "boolean" -> IF v.b THEN <<"t", "r", "u", "e">>
                            ELSE <<"f", "a", "l", "s", "e">>
      [] v.t = "null" -> <<"n", "u", "l", "l">>
      [] OTHER -> <<"u", "n", "d", "e", "f", "i", "n", "e", "d">>

\* the grid cell a record was emitted for
SourceCell(rec) == sheet.grid[<<rec.pos[1] - 1, rec.pos[2] - 1>>]

\* C7, as claimed: an emitted cell carries fmt if and only if the formatted
\* value differs from the string form of the raw value (raw 5 with
\* formatted "5" carries no fmt, raw 5 with formatted "5.00" carries it).
C7_FmtOmission ==
    (extracted.done /\ ~extracted.threw) =>
        \A k \in 1..Len(EmittedCells) :
            (EmittedCells[k].fmt # Absent) <=>
                (SourceCell(EmittedCells[k]).formattedValue
                    # StrV(JsString(SourceCell(EmittedCells[k]).value)))

(***************************************************************************)
(* Claims about detectCellType (SpecType).                                 *)
(***************************************************************************)
CellTypes == {"string", "number", "currency", "percentage", "date", "boolean"}

AllDigits(q) == \A k \in 1..Len(q) : q[k] \in Digits

\* q reads D sep M sep YY or D sep M sep YYYY
IsDayMonthYear(q, sep) ==
    \E d \in 1..2, m \in 1..2, y \in {2, 4} :
        /\ Len(q) = d + m + y + 2
        /\ AllDigits(SubSeq(q, 1, d))
        /\ q[d + 1] = sep
        /\ AllDigits(SubSeq(q, d + 2, d + m + 1))
        /\ q[d + m + 2] = sep
        /\ AllDigits(SubSeq(q, d + m + 3, Len(q)))

\* q reads YYYY-MM-DD
IsIsoDate(q) ==
    /\ Len(q) = 10
    /\ AllDigits(SubSeq(q, 1, 4)) /\ q[5] = "-"
    /\ AllDigits(SubSeq(q, 6, 7)) /\ q[8] = "-"
    /\ AllDigits(SubSeq(q, 9, 10))

\* some part of s reads as a date of the claim's forms
ReadsAsDate(s, withIso) ==
    \E i \in 1..Len(s) : \E j \in i..Len(s) :
        LET q == SubSeq(s, i, j)
        IN  IsDayMonthYear(q, "/") \/ IsDayMonthYear(q, "-") \/ (withIso /\ IsIsoDate(q))

FormattedText(c) == IF c.formattedValue.t = "string" THEN c.formattedValue.s ELSE <<>>

\* the type the claim's priority list gives
ClaimedType(c) ==
    CASE c.value.t = "boolean" -> "boolean"
      [] c.value.t = "number" ->
            IF "%" \in {FormattedText(c)[i] : i \in 1..Len(FormattedText(c))}
            THEN "percentage"
            ELSE IF {FormattedText(c)[i] : i \in 1..Len(FormattedText(c))}
                        \cap {"$", "POUND", "EURO", "YEN", "RUPEE", "RUBLE", "WON"} # {}
            THEN "currency"
            ELSE IF ReadsAsDate(FormattedText(c), FALSE) THEN "date"
            ELSE "number"
      [] c.value.t = "string" -> IF ReadsAsDate(c.value.s, TRUE) THEN "date" ELSE "string"
      [] OTHER -> "string"

Text42Percent == StrV(<<"4", "2", "%">>)

Text42Dollars == StrV(<<"$", "4", "2", ".", "0", "0">>)

Text42 == StrV(<<"4", "2">>)

TextIsoDate == StrV(<<"2", "0", "2", "4", "-", "0", "1", "-", "1", "5">>)

\* C6: detectCellType is the function of (raw value, formatted value) that
\* the priority list describes, its result is one of the six types, and the
\* six examples yield percentage, currency, boolean, date, number, string.
C6_TypeInference ==
    cellType.done =>
        /\ cellType.value \in CellTypes
        /\ cellType.value = ClaimedType(cell)
        /\ (cell.value = Num(42) /\ cell.formattedValue = Text42Percent)
                => cellType.value = "percentage"
        /\ (cell.value = Num(42) /\ cell.formattedValue = Text42Dollars)
                => cellType.value = "currency"
        /\ cell.value = Bool(TRUE) => cellType.value = "boolean"
        /\ cell.value = TextIsoDate => cellType.value = "date"
        /\ (cell.value = Num(42) /\ cell.formattedValue = Text42)
                => cellType.value = "number"
        /\ cell.value = StrV(Hello) => cellType.value = "string"

\* a number whose formatted value holds a currency symbol and a percent sign
C6_Witness ==
    /\ cellType.done
    /\ cell.value = Num(42)
    /\ cell.formattedValue = StrV(<<"$", "5", "%">>)
    /\ cellType.value = "percentage"

(***************************************************************************)
(* Claims about the service methods and the tool handlers (Spec).          *)
(***************************************************************************)
\* C8, as claimed: when the spreadsheet loads but no worksheet has exactly
\* the title sheetName, getSheetData raises the 'Specified sheet not found'
\* error to its caller, and loadCells is never called in that invocation.
C8_SheetNotFound ==
    \A p \in Calls :
        calls[p].lookupMissed =>
            /\ calls[p].raised = MsgSheetNotFound
            /\ calls[p].loadCellsCalls = 0

\* C9: an invocation of getSpreadsheetSummary performs no loadCells call,
\* whatever its outcome, and exactly one loadInfo call when the service is
\* initialised and the URL resolves.
C9_SummaryCheap ==
    \A p \in Calls :
        calls[p].tool = ToolSummary =>
            /\ calls[p].loadCellsCalls = 0
            /\ calls[p].resolved => calls[p].loadInfoCalls = 1
            /\ ~calls[p].resolved => calls[p].loadInfoCalls = 0

\* one summary has succeeded and another has failed at loadInfo
C9_Witness ==
    \E p, q \in Calls :
        /\ calls[p].tool = ToolSummary /\ calls[p].pc = "done"
        /\ calls[p].failure = "none" /\ calls[p].loadInfoCalls = 1
        /\ calls[q].tool = ToolSummary /\ calls[q].pc = "done"
        /\ calls[q].failure = "loadInfo" /\ calls[q].loadInfoCalls = 1

\* the error that reached the catch block of the handler
CaughtMessage(c) == IF c.failure \in {"init", "format"} THEN c.cause ELSE c.raised

\* C10: no exception leaves a tool handler: after any failure inside the
\* handler the response has isError = true and the text 'Error: <message>',
\* and on success the response has no isError.
C10_NeverThrows ==
    \A p \in Calls :
        /\ ~calls[p].escaped
        /\ calls[p].pc = "done" =>
            /\ calls[p].response.sent
            /\ IF calls[p].failure # "none"
               THEN /\ calls[p].response.isError = "true"
                    /\ calls[p].response.prefix = "Error: "
                    /\ calls[p].response.message = CaughtMessage(calls[p])
                    /\ calls[p].response.message # ""
               ELSE calls[p].response.isError = "absent"

\* one invocation has failed in the initialisation, another has succeeded
C10_Witness ==
    \E p, q \in Calls :
        /\ calls[p].pc = "done" /\ calls[p].failure = "init"
        /\ calls[p].response.isError = "true"
        /\ calls[q].pc = "done" /\ calls[q].failure = "none"
        /\ calls[q].tool = ToolSheetData
        /\ calls[q].response.isError = "absent"

(***************************************************************************)
(* Claims about the initialisation of the service (Spec).                  *)
(***************************************************************************)

\* the service instances whose initialisation succeeded: the credentials
\* were read, the service was constructed and the auth client was built
InitialisedInstances == { i \in 1..Len(instances) : instances[i].auth }

\* C11: over any interleaving of tool invocations, several of which may
\* start before the first initialisation has completed, the initialisation
\* of the service runs to success at most once.
C11_InitialisedOnce == Cardinality(InitialisedInstances) <= 1

(***************************************************************************)
(* Claims about errors (Spec).                                             *)
(***************************************************************************)

\* the invocation ended because loadInfo or loadCells rejected
UpstreamFailed(p) ==
    calls[p].pc = "done" /\ calls[p].failure \in {"loadInfo", "loadCells"}

\* two invocations with the same arguments that failed at the same outbound call
SameFailure(p, q) ==
    /\ UpstreamFailed(p) /\ UpstreamFailed(q)
    /\ calls[p].tool = calls[q].tool
    /\ calls[p].url = calls[q].url
    /\ calls[p].sheetName = calls[q].sheetName
    /\ calls[p].failure = calls[q].failure

\* C12: two invocations that differ only in the message of the upstream
\* failure (of loadInfo or of loadCells) get the same tool response, and
\* the upstream message is no part of the response.
C12_NonDisclosure ==
    /\ \A p, q \in Calls : SameFailure(p, q) => calls[p].response = calls[q].response
    /\ \A p \in Calls :
          UpstreamFailed(p) =>
              /\ calls[p].response.message \notin UpstreamErrors
              /\ calls[p].response.data = <<>>

C12_Witness ==
    \E p, q \in Calls :
        /\ SameFailure(p, q)
        /\ calls[p].cause # calls[q].cause
        /\ calls[p].cause \in UpstreamErrors /\ calls[q].cause \in UpstreamErrors
        /\ calls[p].response.sent /\ calls[p].response = calls[q].response

\* the invocation ended because of its arguments or of the configuration
InputOrConfigFailed(p) ==
    calls[p].pc = "done" /\ calls[p].failure \in {"url", "worksheet", "init"}

\* C13: an input error (no identifier in the URL, no worksheet with the
\* title) and a configuration error reach the tool caller with the message
\* of their cause, which is not the generic message of the method; an
\* upstream error reaches the caller with the generic message.
C13_PropagationPolicy ==
    \A p \in Calls :
        /\ InputOrConfigFailed(p) =>
              /\ calls[p].response.isError = "true"
              /\ calls[p].response.message = calls[p].cause
              /\ calls[p].response.message \notin {MsgSummaryFailed, MsgSheetDataFailed}
        /\ UpstreamFailed(p) =>
              calls[p].response.message = GenericMessage(calls[p].tool)

\* the steps of getSpreadsheetSummary that can throw
SummarySteps == {"not_initialized", "url", "loadInfo"}

\* the steps of getSheetData that can throw
SheetDataSteps == {"not_initialized", "url", "loadInfo", "worksheet", "loadCells", "extract"}

\* the service method the invocation called has thrown
ServiceFailed(p) ==
    calls[p].failure \in SummarySteps \cup SheetDataSteps

\* C14: whenever getSpreadsheetSummary fails, whether the service is not
\* initialised, the URL does not resolve or loadInfo rejects, the error it
\* raises carries the fixed message 'Failed to retrieve spreadsheet summary'.
C14_SummaryWrapping ==
    \A p \in Calls :
        (calls[p].tool = ToolSummary /\ ServiceFailed(p)) =>
            /\ calls[p].failure \in SummarySteps
            /\ calls[p].raised = MsgSummaryFailed
            /\ calls[p].raised # calls[p].cause

\* a summary on a service whose initialize() failed to build the auth
\* client, next to one whose URL does not resolve: the same error
C14_Witness ==
    \E p, q \in Calls :
        /\ calls[p].tool = ToolSummary /\ calls[q].tool = ToolSummary
        /\ calls[p].url = ValidUrl /\ calls[q].url = NotAUrl
        /\ ~instances[calls[p].instance].auth
        /\ calls[p].failure = "not_initialized" /\ calls[p].cause = MsgNotInitialized
        /\ calls[p].raised = MsgSummaryFailed /\ calls[q].raised = MsgSummaryFailed

\* C15: whenever a step of getSheetData fails (the service is not
\* initialised, the URL does not resolve, loadInfo rejects, no worksheet has
\* the title, loadCells rejects, the extraction of the cells throws), the
\* error it raises carries the fixed message 'Failed to retrieve sheet data'.
C15_SheetDataWrapping ==
    \A p \in Calls :
        (calls[p].tool = ToolSheetData /\ ServiceFailed(p)) =>
            /\ calls[p].raised = MsgSheetDataFailed
            /\ calls[p].raised # calls[p].cause

C15_Witness ==
    \E p, q \in Calls :
        /\ calls[p].tool = ToolSheetData /\ calls[q].tool = ToolSheetData
        /\ calls[p].failure = "worksheet" /\ calls[p].cause = MsgSheetNotFound
        /\ calls[q].failure = "extract" /\ calls[q].cause = MsgCellNotLoaded
        /\ calls[p].raised = MsgSheetDataFailed /\ calls[q].raised = MsgSheetDataFailed

(***************************************************************************)
(* Claims about cells that cannot be read (SpecCells).                     *)
(***************************************************************************)

\* the read of the grid cell at p succeeds and the cell passes the test
ReadableAndVisible(p) ==
    /\ ~CellReadThrows(sheet.grid[p])
    /\ NonEmpty(sheet.grid[p].value) /\ NonEmpty(sheet.grid[p].formattedValue)

\* C16, as claimed: extractCellData never raises for a cell that cannot be
\* read: it returns, and the list holds every other visible cell.
C16_MalformedCellAbsent ==
    extracted.done =>
        /\ ~extracted.threw
        /\ \A p \in SheetPositions :
              EmittedAt(p) <=> ReadableAndVisible(p)

\* the record that the list holds for the grid cell at zero-based p
RecordAt(p) ==
    EmittedCells[CHOOSE k \in 1..Len(EmittedCells) :
                    EmittedCells[k].pos = <<p[1] + 1, p[2] + 1>>]

\* the grid cell at p with the hyperlink taken away
WithoutHyperlink(p) ==
    Cell(sheet.grid[p].value, sheet.grid[p].formattedValue, HlNone)

\* the read of the hyperlink of the grid cell at p returns a non-empty value
HyperlinkRead(p) == sheet.grid[p].hyperlink \notin {HlThrows, HlNone, HlEmpty}

\* C17: a failure of the hyperlink read is swallowed: the cell is emitted
\* with the pos, val, type and fmt it has without a hyperlink, every other
\* visible cell is emitted as well, and a record carries a hyperlink
\* exactly when the read succeeds with a non-empty value.
C17_HyperlinkSwallowed ==
    (extracted.done /\ ~extracted.threw) =>
        \A p \in SheetPositions :
            ReadableAndVisible(p) =>
                /\ EmittedAt(p)
                /\ RecordAt(p).pos = <<p[1] + 1, p[2] + 1>>
                /\ RecordAt(p).val = sheet.grid[p].value
                /\ RecordAt(p).type = detectCellType(WithoutHyperlink(p))
                /\ RecordAt(p).fmt = CellFmt(WithoutHyperlink(p))
                /\ (RecordAt(p).hyperlink # HlNone) <=> HyperlinkRead(p)
                /\ HyperlinkRead(p) => RecordAt(p).hyperlink = sheet.grid[p].hyperlink

\* a cell whose hyperlink read throws, followed by a cell with a link
C17_Witness ==
    /\ extracted.done /\ ~extracted.threw
    /\ \E p, q \in SheetPositions :
          /\ LexLess(p, q)
          /\ sheet.grid[p] = Cell(StrV(Hello), StrV(Hello), HlThrows)
          /\ sheet.grid[q] = Cell(StrV(Hello), StrV(Hello), HlLink)
          /\ EmittedAt(p) /\ RecordAt(p).hyperlink = HlNone
          /\ EmittedAt(q) /\ RecordAt(q).hyperlink = HlLink

(***************************************************************************)
(* Claims about the outbound calls and the state of the service (Spec).    *)
(***************************************************************************)

ServiceStep(p) == calls'[p] # calls[p] /\ calls'[p].instance # 0

\* the steps of the service methods leave the module-level handle and every
\* service instance (its config and its auth client) as they are
ServiceStepsKeepState ==
    \A p \in Calls :
        ServiceStep(p) => (instances' = instances /\ sheetsService' = sheetsService)

\* two finished invocations with the same arguments that met the same
\* remote behaviour, whatever ran in between
SameCall(p, q) ==
    /\ calls[p].pc = "done" /\ calls[q].pc = "done"
    /\ calls[p].instance # 0 /\ calls[q].instance # 0
    /\ calls[p].tool = calls[q].tool
    /\ calls[p].url = calls[q].url
    /\ calls[p].sheetName = calls[q].sheetName
    /\ calls[p].failure = calls[q].failure

EqualResults == \A p, q \in Calls : SameCall(p, q) => calls[p].response = calls[q].response

\* C19: the service methods leave the auth handle and the config of the
\* service unchanged, on success and on failure, so that two invocations
\* with the same arguments against the same remote state get equal results
\* whatever was invoked in between.
C19_NoStateRetained == []EqualResults /\ [][ServiceStepsKeepState]_vars

\* one invocation failed at loadCells, a second one with the same handle
\* succeeded, and the instance still has its config and its auth client
C19_Witness ==
    \E p, q \in Calls :
        /\ calls[p].pc = "done" /\ calls[p].failure = "loadCells"
        /\ calls[q].pc = "done" /\ calls[q].failure = "none"
        /\ calls[q].response.isError = "absent"
        /\ calls[p].instance = calls[q].instance
        /\ instances[calls[p].instance].auth
        /\ instances[calls[p].instance].config = ServiceConfig(CompleteFile)
        /\ sheetsService = calls[p].instance

\* the credentials file cannot be read, is not JSON, or lacks one of
\* client_email, private_key, project_id (missing or empty)
BadFile(file) ==
    \/ ~file.readable
    \/ ~file.parsable
    \/ file.client_email \in {Undefined, EmptyString}
    \/ file.private_key \in {Undefined, EmptyString}
    \/ file.project_id \in {Undefined, EmptyString}

\* invocation p enters initializeSheetsService with a credentials variable
\* that is unset, empty or an unsubstituted placeholder
BadVariableStep(p) ==
    /\ calls[p].pc = "idle" /\ calls'[p].ranInit
    /\ credentialsVar \in {"unset", "empty", "placeholder"}

\* initializeSheetsService of invocation p has thrown in this step, no
\* service instance was constructed and the handle is the one of before
InitThrewWithoutInstance(p) ==
    /\ calls'[p].pc = "done" /\ calls'[p].failure = "init"
    /\ calls'[p].response = ErrorResponse(calls'[p].cause)
    /\ instances' = instances
    /\ sheetsService' = sheetsService

ConfigErrorsAreFatal ==
    \A p \in Calls :
        /\ BadVariableStep(p) => InitThrewWithoutInstance(p)
        /\ (calls[p].pc = "await_readFile" /\ calls'[p].pc # "await_readFile") =>
              \/ InitThrewWithoutInstance(p)
              \/ \A file \in { f \in CredentialsFileStates : BadFile(f) },
                    jwtThrows \in BOOLEAN : ~ReadFile(p, file, jwtThrows)

\* C20: if the credentials variable is unset or empty or holds the
\* placeholder, or the file cannot be read or parsed, or one of
\* client_email, private_key, project_id is missing or empty, then
\* initializeSheetsService throws, constructs no service instance and
\* leaves the module-level handle with the value it had.
C20_ConfigErrorsFatal == [][ConfigErrorsAreFatal]_vars

\* an initialisation that failed on the required fields next to one that
\* succeeded: the handle still names the instance of the latter
C20_Witness ==
    \E p, q \in Calls :
        /\ calls[p].failure = "init" /\ calls[p].cause = MsgInvalidCredentials
        /\ calls[p].response = ErrorResponse(MsgInvalidCredentials)
        /\ calls[q].ranInit /\ calls[q].instance = 1
        /\ sheetsService = 1 /\ Len(instances) = 1

(***************************************************************************)
(* Claims about the order of the patterns (SpecUrl).                       *)
(***************************************************************************)

\* the indices at which the string holds the literal followed by at least
\* one character of an identifier
SegmentStarts(s, literal) ==
    { i \in 1..Len(s) :
        /\ i + Len(literal) <= Len(s)
        /\ SubSeq(s, i, i + Len(literal) - 1) = literal
        /\ s[i + Len(literal)] \in IdChars }

Leftmost(S) == CHOOSE i \in S : \A j \in S : i <= j

\* the identifier of the segment that starts at i: the characters after
\* the literal up to the first one that is no character of an identifier
SegmentIdentifier(s, literal, i) ==
    LET from == i + Len(literal)
        to == CHOOSE e \in from..Len(s) :
                  /\ \A k \in from..e : s[k] \in IdChars
                  /\ e = Len(s) \/ s[e + 1] \notin IdChars
    IN  SubSeq(s, from, to)

LeftmostIdentifier(s, literal) ==
    SegmentIdentifier(s, literal, Leftmost(SegmentStarts(s, literal)))

LitSpreadsheetsD ==
    <<"/", "s", "p", "r", "e", "a", "d", "s", "h", "e", "e", "t", "s", "/", "d", "/">>

LitD == <<"/", "d", "/">>

LitId == <<"i", "d", "=">>

\* C21: a string with a /spreadsheets/d/<ID> segment resolves to the
\* identifier of the leftmost such segment, whatever /d/<ID2> segment or
\* id=<ID3> parameter stands before it; without one, a string with a
\* /d/<ID> segment resolves to the identifier of the leftmost of these;
\* id=<ID> decides only when the string has no /d/<ID> segment at all.
C21_PatternPriority ==
    (urlResult.done /\ url.kind = "string") =>
        /\ SegmentStarts(url.s, LitSpreadsheetsD) # {} =>
              /\ ~urlResult.threw
              /\ urlResult.value = LeftmostIdentifier(url.s, LitSpreadsheetsD)
        /\ (SegmentStarts(url.s, LitSpreadsheetsD) = {} /\ SegmentStarts(url.s, LitD) # {}) =>
              /\ ~urlResult.threw
              /\ urlResult.value = LeftmostIdentifier(url.s, LitD)
        /\ (SegmentStarts(url.s, LitD) = {} /\ SegmentStarts(url.s, LitId) # {}) =>
              /\ ~urlResult.threw
              /\ urlResult.value = LeftmostIdentifier(url.s, LitId)

\* an id= parameter, then a bare /d/ segment, then a /spreadsheets/d/
\* segment: the identifier of the last one is returned
C21_Witness ==
    /\ urlResult.done /\ ~urlResult.threw
    /\ url.kind = "string"
    /\ SegmentStarts(url.s, LitSpreadsheetsD) # {}
    /\ SegmentStarts(url.s, LitId) # {}
    /\ Leftmost(SegmentStarts(url.s, LitId)) < Leftmost(SegmentStarts(url.s, LitD))
    /\ Leftmost(SegmentStarts(url.s, LitD)) < Leftmost(SegmentStarts(url.s, LitSpreadsheetsD))
    /\ urlResult.value = SegmentId(1)
    /\ urlResult.value # LeftmostIdentifier(url.s, LitD)

(***************************************************************************)
(* Claims about the order of the steps (SpecService).                      *)
(***************************************************************************)

\* loadInfo of invocation p has resolved
LoadInfoSucceeded(p) ==
    /\ calls[p].loadInfoCalls = 1
    /\ calls[p].pc # "await_loadInfo"
    /\ calls[p].failure # "loadInfo"

\* loadCells of invocation p has resolved
LoadCellsSucceeded(p) ==
    /\ calls[p].loadCellsCalls = 1
    /\ calls[p].pc # "await_loadCells"
    /\ calls[p].failure # "loadCells"

\* the worksheet was looked up by its title
LookedUp(p) == calls[p].sheetIndex # 0 \/ calls[p].lookupMissed

\* extractCellData has run: it threw, or its result is in the response
Extracted(p) ==
    \/ calls[p].failure = "extract"
    \/ calls[p].failure = "format"
    \/ (calls[p].response.sent /\ calls[p].response.isError = "absent")

\* C22: in an invocation of getSheetData the steps occur only in the order
\* resolve identifier, loadInfo, worksheet lookup, loadCells, extraction:
\* loadInfo is called only with an identifier, the lookup is made only
\* after loadInfo has resolved, loadCells is called only after the
\* worksheet was found, the extraction runs only after loadCells has
\* resolved, and no outbound call is made when the URL does not resolve.
C22_StepOrder ==
    \A p \in Calls :
        calls[p].tool = ToolSheetData =>
            /\ calls[p].loadInfoCalls >= 1 => calls[p].resolved
            /\ LookedUp(p) => LoadInfoSucceeded(p)
            /\ calls[p].loadCellsCalls >= 1 =>
                  (LoadInfoSucceeded(p) /\ calls[p].sheetIndex # 0 /\ ~calls[p].lookupMissed)
            /\ Extracted(p) => LoadCellsSucceeded(p)
            /\ calls[p].failure = "url" =>
                  (calls[p].loadInfoCalls = 0 /\ calls[p].loadCellsCalls = 0)

\* one invocation went through every step, another stopped at the URL
C22_Witness ==
    \E p, q \in Calls :
        /\ calls[p].tool = ToolSheetData /\ calls[q].tool = ToolSheetData
        /\ calls[p].resolved /\ LoadInfoSucceeded(p) /\ calls[p].sheetIndex = 1
        /\ LoadCellsSucceeded(p) /\ calls[p].response.isError = "absent"
        /\ Len(calls[p].response.data.cells) = 2
        /\ calls[q].failure = "url" /\ calls[q].loadInfoCalls = 0

(***************************************************************************)
(* Claims about the private key (SpecKey).                                 *)
(***************************************************************************)

\* the indices at which the key holds a backslash followed by the letter n
EscapedNewlines(s) == { i \in 1..(Len(s) - 1) : s[i] = "\\" /\ s[i + 1] = "n" }

\* the number of escaped newlines that start before index i
EscapedBefore(s, i) == Cardinality({ o \in EscapedNewlines(s) : o < i })

\* t is s with every escaped newline replaced by one newline character
\* and every other character kept in its place
IsUnescaped(s, t) ==
    /\ Len(t) = Len(s) - Cardinality(EscapedNewlines(s))
    /\ \A i \in 1..Len(s) :
          IF i \in EscapedNewlines(s) THEN t[i - EscapedBefore(s, i)] = "\n"
          ELSE IF i - 1 \in EscapedNewlines(s) THEN TRUE
          ELSE t[i - EscapedBefore(s, i)] = s[i]

\* C23: the private key handed to the service is the key of the file with
\* every backslash-n pair replaced by one newline character and nothing
\* else changed; a key without such a pair is passed through unchanged,
\* and formatting the formatted key again changes nothing.
C23_KeyUnescaped ==
    formattedPrivateKey.done =>
        /\ IsUnescaped(privateKey, formattedPrivateKey.value)
        /\ EscapedNewlines(privateKey) = {} => formattedPrivateKey.value = privateKey
        /\ EscapedNewlines(formattedPrivateKey.value) = {}
        /\ ReplaceEscapedNewlines(formattedPrivateKey.value) = formattedPrivateKey.value

\* a key with two escaped newlines
C23_Witness ==
    /\ formattedPrivateKey.done
    /\ Cardinality(EscapedNewlines(privateKey)) = 2
    /\ formattedPrivateKey.value = <<"\n", "\n">>

(***************************************************************************)
(* Claims about a service without auth client.                             *)
(***************************************************************************)

\* invocation p has called a service method on an instance whose auth is null
CalledWithoutAuth(p) ==
    calls[p].instance # 0 /\ ~instances[calls[p].instance].auth

\* C24: a call of getSpreadsheetSummary or getSheetData on a service whose
\* auth is null fails with an error, resolves no URL and makes no
\* outbound call.
C24_UninitialisedGuard ==
    \A p \in Calls :
        CalledWithoutAuth(p) =>
            /\ calls[p].pc = "done"
            /\ calls[p].failure = "not_initialized"
            /\ calls[p].raised # ""
            /\ calls[p].response.isError = "true"
            /\ ~calls[p].resolved /\ calls[p].sheetId = <<>>
            /\ calls[p].loadInfoCalls = 0 /\ calls[p].loadCellsCalls = 0

\* both methods, each with a URL that would have resolved
C24_Witness ==
    \E p, q \in Calls :
        /\ CalledWithoutAuth(p) /\ CalledWithoutAuth(q)
        /\ calls[p].tool = ToolSummary /\ calls[q].tool = ToolSheetData
        /\ calls[p].url = ValidUrl /\ calls[q].url = ValidUrl
        /\ calls[p].cause = MsgNotInitialized /\ calls[q].cause = MsgNotInitialized
        /\ calls[p].loadInfoCalls = 0 /\ calls[q].loadInfoCalls = 0

\* no construction of an auth client has thrown
NoAuthFailure == \A p \in Calls : calls[p].cause # MsgAuthFailed

\* C25: under any interleaving of tool invocations, and as long as no
\* construction of the auth client throws, the module-level handle is
\* non-null only together with a set auth handle, and no handler calls a
\* service method on an instance whose auth is null, also when a second
\* initialisation in flight replaces the handle by a new instance.
C25_HandleImpliesAuth ==
    NoAuthFailure =>
        /\ sheetsService # 0 => instances[sheetsService].auth
        /\ \A p \in Calls : ~CalledWithoutAuth(p) /\ calls[p].failure # "not_initialized"

\* two initialisations in flight: the second replaced the handle after the
\* first invocation had called its method
C25_Witness ==
    /\ NoAuthFailure
    /\ Len(instances) = 2 /\ sheetsService = 2
    /\ \E p, q \in Calls :
          /\ calls[p].ranInit /\ calls[q].ranInit
          /\ calls[p].instance = 1 /\ calls[q].instance = 2
          /\ instances[1].auth /\ instances[2].auth

(***************************************************************************)
(* Claims about repeated initialisation (SpecInit).                        *)
(***************************************************************************)

\* the errors thrown before  new GoogleSheetsService(...)
CredentialStageErrors ==
    {MsgMissingEnv, MsgPlaceholder, MsgNoSuchFile, MsgJsonSyntax, MsgInvalidCredentials}

\* in this step initializeSheetsService of invocation p fails before the
\* service is constructed
CredentialStageFailure(p) ==
    /\ calls[p].failure = "none"
    /\ calls'[p].failure = "init"
    /\ calls'[p].cause \in CredentialStageErrors

\* in this step the handler of invocation p starts
Starts(p) == calls[p].pc = "idle" /\ calls'[p].pc # "idle"

RetriedUntilSet ==
    \A p \in Calls :
        /\ CredentialStageFailure(p) =>
              /\ sheetsService' = sheetsService
              /\ instances' = instances
              /\ calls'[p].pc = "done"
              /\ calls'[p].response.isError = "true"
        /\ (Starts(p) /\ sheetsService = 0) => calls'[p].ranInit
        /\ (Starts(p) /\ sheetsService # 0) => ~calls'[p].ranInit
        /\ sheetsService # 0 => sheetsService' # 0

\* C26: a failure of initializeSheetsService before the service is
\* constructed leaves the module-level handle as it is (null stays null)
\* and gives the failing invocation an error response; an invocation that
\* starts while the handle is null runs the initialisation again; once an
\* initialisation has set the handle, no invocation that starts later
\* runs it.
C26_RetryAfterFailure == [][RetriedUntilSet]_vars

\* the first invocation failed on the credentials file, the second ran the
\* initialisation again and got its service
C26_Witness ==
    /\ MaxCalls >= 2
    /\ calls[1].failure = "init" /\ calls[1].cause = MsgJsonSyntax
    /\ calls[1].response.isError = "true"
    /\ calls[2].ranInit /\ calls[2].instance = 1
    /\ sheetsService = 1 /\ Len(instances) = 1 /\ instances[1].auth


\* the construction of the auth client has thrown in some initialisation
AuthConstructionFailed == \E i \in 1..Len(instances) : ~instances[i].auth

\* invocation p skipped the initialisation and called the service on an
\* instance without auth client
SkippedOntoFailed(p) ==
    /\ calls[p].pc # "idle" /\ ~calls[p].ranInit
    /\ calls[p].instance # 0 /\ ~instances[calls[p].instance].auth

\* C27: once the construction of the auth client has failed inside
\* sheetsService.initialize(), the module-level handle stays on the instance
\* whose auth is null, and the invocations that skip the initialisation and
\* reach that instance end with an error response: the failure is permanent.
C27_AuthFailurePermanent ==
    AuthConstructionFailed =>
        /\ sheetsService # 0 /\ ~instances[sheetsService].auth
        /\ \A p \in Calls : SkippedOntoFailed(p) =>
              calls[p].pc = "done" /\ calls[p].response.isError = "true"


(***************************************************************************)
(* Claims about the bounds of the extraction (SpecCells).                  *)
(***************************************************************************)

ZeroDimension(sh) == sh.rowCount = 0 \/ sh.columnCount = 0

\* C28: the result of extractCellData carries the declared rowCount and
\* columnCount as metadata.dimensions, every pos [r, c] in it has
\* 1 <= r <= rowCount and 1 <= c <= columnCount, it holds at most
\* rowCount * columnCount cells, and a worksheet with rowCount = 0 or
\* columnCount = 0 gives an empty list and no call of getCell.
C28_ExtractionBounds ==
    /\ (extracted.done /\ ~extracted.threw) =>
          LET r == extracted.value
          IN  /\ r.metadata.dimensions =
                    [rows |-> sheet.rowCount, columns |-> sheet.columnCount]
              /\ \A i \in 1..Len(r.cells) :
                    /\ 1 <= r.cells[i].pos[1] /\ r.cells[i].pos[1] <= sheet.rowCount
                    /\ 1 <= r.cells[i].pos[2] /\ r.cells[i].pos[2] <= sheet.columnCount
              /\ Len(r.cells) <= sheet.rowCount * sheet.columnCount
    /\ (extracted.done /\ ZeroDimension(sheet)) =>
          /\ ~extracted.threw
          /\ extracted.value.cells = <<>>
          /\ ReadPositions(sheet, 0, 0, {}) = {}

\* a worksheet with more columns than rows, its last cell emitted
C28_Witness ==
    /\ extracted.done /\ ~extracted.threw
    /\ sheet.rowCount >= 1 /\ sheet.columnCount > sheet.rowCount
    /\ \E i \in 1..Len(extracted.value.cells) :
          extracted.value.cells[i].pos = <<sheet.rowCount, sheet.columnCount>>
    /\ ReadPositions(sheet, 0, 0, {}) = Positions(sheet.rowCount, sheet.columnCount)


(***************************************************************************)
(* The address-keyed extraction of the earlier service (sheets.js).        *)
(***************************************************************************)
\* the 26 of  colNum % 26  and  colNum / 26
LetterCount == 26

\* String.fromCharCode(65 + k), 0 <= k < 26
FromCharCode65(k) ==
    <<"A", "B", "C", "D", "E", "F", "G", "H", "I", "J", "K", "L", "M",
      "N", "O", "P", "Q", "R", "S", "T", "U", "V", "W", "X", "Y", "Z">>[k + 1]

\* the while loop without  colNum--
RECURSIVE ColumnLoopWithoutDecrement(_, _)
ColumnLoopWithoutDecrement(colNum, result) ==
    IF colNum > 0
    THEN ColumnLoopWithoutDecrement(colNum \div LetterCount,
                                    <<FromCharCode65(colNum % LetterCount)>> \o result)
    ELSE result

columnToLetterWithoutDecrement(colNum) == ColumnLoopWithoutDecrement(colNum, <<>>)

\* the while loop of columnToLetter
RECURSIVE ColumnLoop(_, _)
ColumnLoop(colNum, result) ==
    IF colNum > 0
    THEN LET decremented == colNum - 1
         IN  ColumnLoop(decremented \div LetterCount,
                        <<FromCharCode65(decremented % LetterCount)>> \o result)
    ELSE result

columnToLetter(colNum) == ColumnLoop(colNum, <<>>)

\* `${this.columnToLetter(col + 1)}${row + 1}`
CellAddress(row, col) == columnToLetter(col + 1) \o NatString(row + 1)

\* const cells = {}
EmptyObject == [a \in {} |-> Null]

\* cells[cellAddress] = cellData
Put(cells, address, cellData) ==
    [a \in DOMAIN cells \cup {address} |->
        IF a = address THEN cellData ELSE cells[a]]

\* the condition under which the earlier service includes a cell
HasRawValue(c) == c.value # Null /\ c.value # Undefined /\ c.value # EmptyString

\* the record of a cell (the optional formatting properties, which the
\* cells of this model do not carry, are each read inside a try)
LegacyCellData(c, row, col) ==
    [row |-> row + 1, column |-> col + 1, address |-> CellAddress(row, col),
     value |-> c.value, formattedValue |-> c.formattedValue,
     hyperlink |-> CellHyperlink(c)]

\* the inner loop, from col on: the object, or the error of a read that throws
RECURSIVE LegacyScanRow(_, _, _, _)
LegacyScanRow(sh, row, col, cells) ==
    IF col >= sh.columnCount THEN Returned(cells)
    ELSE LET c == getCell(sh, row, col)
         IN  IF CellReadThrows(c) THEN Threw(MsgCellNotLoaded)
             ELSE LegacyScanRow(sh, row, col + 1,
                                IF HasRawValue(c)
                                THEN Put(cells, CellAddress(row, col),
                                         LegacyCellData(c, row, col))
                                ELSE cells)

\* the outer loop, from row on
RECURSIVE LegacyScanRows(_, _, _)
LegacyScanRows(sh, row, cells) ==
    IF row >= sh.rowCount THEN Returned(cells)
    ELSE LET scanned == LegacyScanRow(sh, row, 0, cells)
         IN  IF scanned.threw THEN scanned
             ELSE LegacyScanRows(sh, row + 1, scanned.value)

\* the outcome of the earlier extractCellData(sheet)
legacyExtractCellData(sh) == LegacyScanRows(sh, 0, EmptyObject)

\* worksheets past the thirtieth row and past column Z
LegacyMaxRows == 31

LegacyMaxCols == 28

\* the first cell of a worksheet and, in its last row, the first and the
\* last column and the columns around Z
LegacyPositions(rows, cols) ==
    { p \in Positions(rows, cols) :
        \/ p = <<0, 0>>
        \/ /\ p[1] = rows - 1
           /\ p[2] \in {0, LetterCount - 1, LetterCount, cols - 1} }

LegacyGridCells ==
    { Cell(Num(0), StrV(<<"0">>), HlNone),
      Cell(StrV(Hello), StrV(Hello), HlLink),
      Cell(EmptyString, StrV(Hello), HlNone),
      Cell(Undefined, StrV(<<"0">>), HlNone),
      UnreadableCell }

InitLegacy ==
    /\ \E rows \in {0, 1, LegacyMaxRows}, cols \in {0, 1, LegacyMaxCols} :
          \E filled \in SUBSET LegacyPositions(rows, cols) :
              /\ Cardinality(filled) <= MaxFilled
              /\ \E f \in [filled -> LegacyGridCells] : sheet = SheetOf(rows, cols, f)
    /\ extracted = NotRun
    /\ legacyCells = NotRun
    /\ UrlIdle /\ TypeIdle /\ ServerIdle /\ KeyIdle /\ LogIdle

ExtractLegacy ==
    /\ ~legacyCells.done
    /\ legacyCells' = legacyExtractCellData(sheet)
    /\ UNCHANGED <<cellVars, urlVars, typeVars, serverVars, keyVars, logVars>>

NextLegacy == ExtractLegacy

SpecLegacy == InitLegacy /\ [][NextLegacy]_vars

(***************************************************************************)
(* Claims about the address-keyed extraction (SpecLegacy).                 *)
(***************************************************************************)

\* the letters of an address and its digits
LettersOf(address) == SelectSeq(address, LAMBDA ch : ch \in UpperLetters)

DigitsOf(address) == SelectSeq(address, LAMBDA ch : ch \in Digits)

\* the number a run of letters stands for in bijective base 26 (A = 1, Z = 26)
RECURSIVE ColumnOfLetters(_)
ColumnOfLetters(letters) ==
    IF letters = <<>> THEN 0
    ELSE LET last == letters[Len(letters)]
             digit == CHOOSE d \in 1..LetterCount : FromCharCode65(d - 1) = last
         IN  ColumnOfLetters(SubSeq(letters, 1, Len(letters) - 1)) * LetterCount + digit

\* the number a run of decimal digits stands for
RECURSIVE RowOfDigits(_)
RowOfDigits(digits) ==
    IF digits = <<>> THEN 0
    ELSE LET last == digits[Len(digits)]
             digit == CHOOSE d \in 0..9 : DigitChar(d) = last
         IN  RowOfDigits(SubSeq(digits, 1, Len(digits) - 1)) * 10 + digit

\* the positions of the worksheet whose raw value is not null, undefined or ''
WithRawValue(sh) ==
    { p \in Positions(sh.rowCount, sh.columnCount) : HasRawValue(getCell(sh, p[1], p[2])) }

MaxLogged == 2

\* process.env.LOG_LEVEL and process.env.DEBUG: "unset" is a variable that
\* is not defined
LogEnvs ==
    [LOG_LEVEL : {"unset", "", "debug", "info", "warn", "error", "verbose", "INFO"},
     DEBUG : {"unset", "true", "false", "TRUE"}]

\* constructor()
NewLogger(e) ==
    [logLevel |-> IF e.LOG_LEVEL \in {"unset", ""} THEN "info" ELSE e.LOG_LEVEL,
     debugMode |-> (e.DEBUG = "true")]

\* level.toUpperCase()
ToUpperCase(level) ==
    CASE level = "debug" -> "DEBUG"
      [] level = "info" -> "INFO"
      [] level = "warn" -> "WARN"
      [] level = "error" -> "ERROR"

\* console.log(prefix, message): a line on standard output
ConsoleLog(streams, line) == [streams EXCEPT !.stdout = Append(@, line)]

\* console.error(prefix, message): a line on standard error
ConsoleError(streams, line) == [streams EXCEPT !.stderr = Append(@, line)]

\* _log(level, message); the timestamp of the prefix is left out
log(streams, level, message) ==
    ConsoleError(streams, [level |-> ToUpperCase(level), message |-> message])

debug(lg, streams, message) ==
    IF lg.debugMode \/ lg.logLevel = "debug"
    THEN log(streams, "debug", message) ELSE streams

info(lg, streams, message) ==
    IF lg.logLevel \in {"debug", "info"}
    THEN log(streams, "info", message) ELSE streams

warn(lg, streams, message) ==
    IF lg.logLevel \in {"debug", "info", "warn"}
    THEN log(streams, "warn", message) ELSE streams

error(lg, streams, message) ==
    IF lg.logLevel \in {"debug", "info", "warn", "error"}
    THEN log(streams, "error", message) ELSE streams

\* `[MCP] ${message}`
McpMessage(message) == <<"[MCP] ">> \o message

mcp(lg, streams, message) == debug(lg, streams, McpMessage(message))

LogMessages == {<<"started">>, <<"failed">>}

\* logger.<method>(message)
CallMethod(lg, streams, method, message) ==
    CASE method = "debug" -> debug(lg, streams, message)
      [] method = "info" -> info(lg, streams, message)
      [] method = "warn" -> warn(lg, streams, message)
      [] method = "error" -> error(lg, streams, message)
      [] method = "mcp" -> mcp(lg, streams, message)

InitLog ==
    /\ env \in LogEnvs
    /\ logger = NewLogger(env)
    /\ called = <<>> /\ stderr = <<>> /\ stdout = <<>>
    /\ UrlIdle /\ TypeIdle /\ CellsIdle /\ ServerIdle /\ KeyIdle /\ LegacyIdle

\* one call of a method of the Logger
LogCall(method) ==
    /\ Len(called) < MaxLogged
    /\ \E message \in LogMessages :
          /\ called' = Append(called, [method |-> method, message |-> message])
          /\ LET out == CallMethod(logger, [stderr |-> stderr, stdout |-> stdout],
                                   method, message)
             IN  stderr' = out.stderr /\ stdout' = out.stdout
    /\ UNCHANGED <<env, logger, urlVars, typeVars, cellVars, serverVars,
                   keyVars, legacyVars>>

LogDebug == LogCall("debug")

LogInfo == LogCall("info")

LogWarn == LogCall("warn")

LogError == LogCall("error")

LogMcp == LogCall("mcp")

NextLog == LogDebug \/ LogInfo \/ LogWarn \/ LogError \/ LogMcp

SpecLog == InitLog /\ [][NextLog]_vars

(***************************************************************************)
(* Claims about the Logger (SpecLog).                                      *)
(***************************************************************************)

\* the levels the Logger knows, from the least to the most verbose
LevelRank == [error |-> 1, warn |-> 2, info |-> 3, debug |-> 4]

Recognised == DOMAIN LevelRank

\* the level of the messages of a method
LevelOf(method) == IF method = "mcp" THEN "debug" ELSE method

\* whether a message of this level is to be emitted at logLevel, DEBUG
\* holding debugVar
Admitted(level, logLevel, debugVar) ==
    CASE level = "error" -> logLevel \in {"debug", "info", "warn", "error"}
      [] level = "warn" -> logLevel \in {"debug", "info", "warn"}
      [] level = "info" -> logLevel \in {"debug", "info"}
      [] level = "debug" -> logLevel = "debug" \/ debugVar = "true"

\* the calls that are to leave a line
AdmittedCalls ==
    SelectSeq(called, LAMBDA c : Admitted(LevelOf(c.method), logger.logLevel, env.DEBUG))

NoOutput == [stderr |-> <<>>, stdout |-> <<>>]

\* a Logger at logLevel, all else as in this one, emits the message of a call
EmitsAt(c, logLevel) ==
    CallMethod([logger EXCEPT !.logLevel = logLevel], NoOutput, c.method, c.message).stderr
        # <<>>

\* C30: the Logger writes to stderr only and never to stdout; a call leaves
\* a line exactly when its level is admitted (error at logLevel debug, info,
\* warn or error; warn at debug, info or warn; info at debug or info; debug
\* at logLevel debug or under DEBUG=true); what is emitted at one logLevel
\* is emitted at every more verbose one; and with an unrecognised logLevel
\* nothing is emitted but debug messages under DEBUG=true.
C30_LoggerFilters ==
    /\ stdout = <<>>
    /\ Len(stderr) = Len(AdmittedCalls)
    /\ \A i \in 1..Len(stderr) :
          /\ stderr[i].level = ToUpperCase(LevelOf(AdmittedCalls[i].method))
          /\ stderr[i].message \in {AdmittedCalls[i].message,
                                    McpMessage(AdmittedCalls[i].message)}
    /\ \A i \in 1..Len(called) : \A l1, l2 \in Recognised :
          (LevelRank[l1] <= LevelRank[l2] /\ EmitsAt(called[i], l1))
              => EmitsAt(called[i], l2)
    /\ logger.logLevel \notin Recognised =>
          \A i \in 1..Len(stderr) : stderr[i].level = "DEBUG" /\ env.DEBUG = "true"

\* under LOG_LEVEL=warn a warning is written and a message of level info is not
C30_Witness ==
    /\ env.LOG_LEVEL = "warn" /\ env.DEBUG = "unset"
    /\ Len(called) = 2
    /\ called[1].method = "info" /\ called[2].method = "warn"
    /\ Len(stderr) = 1 /\ stderr[1].level = "WARN"
    /\ stdout = <<>>

====
